---- MODULE Spec2Model ----
(***************************************************************************)
(* DMAF: the processed-file ledger, the embedding cache and the per-item   *)
(* file-processing pipeline (watch mode and batch mode).                   *)
(*                                                                         *)
(* Optional values (Python None) are sequences of length at most one:      *)
(* <<>> is None and <<v>> is the value v.  Similarity scores, distances,   *)
(* tolerance and borderline_offset are numbers in units of 1/(4*Scale),    *)
(* so 1.0 is 4*Scale.                                                      *)
(***************************************************************************)
EXTENDS Integers, Sequences, FiniteSets, TLC

\* ------------------------------------------------------------------ bounds
Scale == 2
MaxFaces == 1
MaxScans == 2
MaxWatchEvents == 1
MaxDbOps == 3
MaxMtime == 2
MaxDirChanges == 1
MaxLoads == 2
MaxEvents == 2
MaxClock == 61
MaxThreadOps == 3
MaxFrames == 4
MaxRetries == 2
MaxRefreshClock == 16
MaxRefreshRecords == 2
MaxPurgeClock == 16

\* ------------------------------------------------------------- the world
LocalImages == {"D1/L1.jpg"}
LocalOthers == {"D1/notes.txt"}
GcsImages == {"gs://b/G1.jpg"}
TempOf(gcs_path) == "tmp/G1.jpg"
TempPaths == {TempOf(g) : g \in GcsImages}
DedupKeys == LocalImages \cup GcsImages
Paths == LocalImages \cup LocalOthers \cup GcsImages \cup TempPaths
KnownOrder == <<"Alice", "Bob">>
KnownPeople == {KnownOrder[i] : i \in 1..Len(KnownOrder)}

None == <<>>
Some(v) == <<v>>

VARIABLES
  files,              \* files table: dedup_key -> row (its domain is the set of keys stored)
  borderline_events,  \* borderline_events table, in insertion order
  error_events,       \* error_events table, in insertion order
  db_ops,             \* number of direct store calls made (SpecDB)
  db_last,            \* the last direct store call and the table before it (SpecDB)
  db_flips,           \* per key, how many times uploaded went from 0 to 1 (SpecDB)
  fs,                 \* the Firestore collection, and what the last call gave on each backend
  cfg,                \* Settings: recognition.tolerance, alerting.*, delete_* and the backend
  disk,               \* the local files that exist (watch directories and temp downloads)
  recog_calls,        \* per dedup_key, how many times process_fn was invoked for it
  on_match_calls,     \* per dedup_key, how many times on_match was invoked for it
  scan,               \* scan_and_process_once: its position and its counters
  scans,              \* number of scans started
  watch_events,       \* number of on_created events delivered
  last,               \* what the last pipeline run did
  probes,             \* which set of images the environment can present (fixed by Init)
  bucket,             \* the objects under the gs:// watch prefix (fixed by Init)
  budget,             \* how many scans and watch events the run may take (fixed by Init)
  refdir,             \* known_root: reference file -> st_mtime (0: the file does not exist)
  embedding_cache,    \* embedding_cache table: cache_key -> row
  loader,             \* the load_known_faces call in progress
  backend_loads,      \* number of backend.load_known_faces invocations
  loads,              \* number of load_known_faces calls started
  dir_changes,        \* number of changes made to known_root
  last_change,        \* the last change made to known_root
  ret,                \* what the last load_known_faces call returned
  prev_ret,           \* what the call before it returned
  alert_batches,      \* alert_batches table, in insertion order
  now,                \* the wall clock, in minutes
  alert_cfg,          \* AlertSettings: batch_interval_minutes, recipients, smtp (fixed by Init)
  sender,             \* the send_pending_alerts call in progress
  emails,             \* number of emails the transport delivered
  alert_last,         \* the last AlertManager call that returned, and what it returned
  main,               \* batch-mode main: runs that exited and the last exit status
  write_lock,         \* Database._write_lock: None, or the thread that holds it
  thr,                \* per thread: its position in a Database call, the call, its transaction
  thread_ops,         \* number of Database calls the threads have started
  first_insert,       \* per key, the values of the first insert that was committed for it
  ignored_inserts,    \* number of committed inserts that found a row for their key
  video,              \* the video file: its frames, its metadata, whether it opens (fixed by Init)
  vp,                 \* find_face_in_video: its position, what it read and called, its result
  retry_cfg,          \* the RetryConfig of the wrapper (fixed by Init)
  rt,                 \* the wrapper of with_retry: its position, its calls and sleeps, its outcome
  refresh_cfg,        \* KnownRefreshSettings (fixed by Init)
  known_refresh_history, \* table known_refresh_history: the created_ts of its rows
  rf,                 \* the refresh manager's clock, the machine's UTC offset, the last call
  pg                  \* cleanup_old_events: the clock, the UTC offset, the call just returned

storeVars == <<files, borderline_events, error_events>>
dbVars == <<db_ops, db_last, db_flips, fs>>
envVars == <<cfg, probes, bucket, budget>>
pipeVars == <<envVars, disk, recog_calls, on_match_calls, scan, scans, watch_events, last>>
cacheVars == <<refdir, embedding_cache, loader, backend_loads, loads, dir_changes,
               last_change, ret, prev_ret>>
alertVars == <<alert_batches, now, alert_cfg, sender, emails, alert_last, main>>
threadVars == <<write_lock, thr, thread_ops, first_insert, ignored_inserts>>
videoVars == <<video, vp>>
retryVars == <<retry_cfg, rt>>
refreshVars == <<refresh_cfg, known_refresh_history, rf>>
purgeVars == <<pg>>
restVars == <<alertVars, threadVars, videoVars, retryVars, refreshVars, purgeVars>>

\* ------------------------------------------------------------- the store
FileRow(sha256, matched, uploaded, match_score, matched_person) ==
  [sha256 |-> sha256, matched |-> matched, uploaded |-> uploaded,
   match_score |-> match_score, matched_person |-> matched_person]

\* the lookup never finds the row
seen_never(f, path) == FALSE

\* the lookup finds a row for every path
seen_always(f, path) == TRUE

\* SELECT 1 FROM files WHERE path=?
seen(f, path) == path \in DOMAIN f

\* INSERT OR REPLACE in place of INSERT OR IGNORE
add_file_with_score_replace(f, path, sha256, matched, uploaded, match_score, matched_person) ==
  [p \in DOMAIN f \cup {path} |->
     IF p = path THEN FileRow(sha256, matched, uploaded, match_score, matched_person)
     ELSE f[p]]

\* INSERT OR IGNORE INTO files(path, sha256, matched, uploaded, match_score, matched_person)
add_file_with_score(f, path, sha256, matched, uploaded, match_score, matched_person) ==
  IF path \in DOMAIN f THEN f
  ELSE f @@ (path :> FileRow(sha256, matched, uploaded, match_score, matched_person))

\* INSERT OR REPLACE INTO files(path, sha256, matched, uploaded)
add_file_replace(f, path, sha256, matched, uploaded) ==
  [p \in DOMAIN f \cup {path} |->
     IF p = path THEN FileRow(sha256, matched, uploaded, None, None) ELSE f[p]]

\* INSERT OR IGNORE INTO files(path, sha256, matched, uploaded): the two score
\* columns take their NULL default
add_file(f, path, sha256, matched, uploaded) ==
  IF path \in DOMAIN f THEN f
  ELSE f @@ (path :> FileRow(sha256, matched, uploaded, None, None))

\* UPDATE files SET uploaded=1 WHERE path=?
mark_uploaded(f, path) ==
  [p \in DOMAIN f |-> IF p = path THEN [f[p] EXCEPT !.uploaded = 1] ELSE f[p]]

\* INSERT INTO borderline_events(file_path, match_score, tolerance, matched_person)
add_borderline_event(evs, file_path, match_score, tolerance, matched_person) ==
  Append(evs, [file_path |-> file_path, match_score |-> match_score,
               tolerance |-> tolerance, matched_person |-> matched_person,
               alerted |-> 0])

\* INSERT INTO error_events(error_type, error_message, file_path)
add_error_event(evs, error_type, file_path) ==
  Append(evs, [error_type |-> error_type, file_path |-> file_path, alerted |-> 0])

ContentOf(path) == <<"sha256", path>>

\* ------------------------------------------------- direct calls on the store
DbKeys == {"D1/L1.jpg", "gs://b/G1.jpg"}
OptScores == {None, Some(4 * Scale)}
OptPeople == {None, Some("Alice")}

DbCall(op, path, uploaded) == [op |-> op, path |-> path, uploaded |-> uploaded, before |-> files]

\* the 0 -> 1 changes of uploaded between the table f and the table g
Flipped(f, g) ==
  {k \in DOMAIN f \cap DOMAIN g : f[k].uploaded = 0 /\ g[k].uploaded = 1}

CountFlips == db_flips' = [k \in DbKeys |-> db_flips[k] + (IF k \in Flipped(files, files') THEN 1 ELSE 0)]

DbAddFile ==
  \E path \in DbKeys, matched \in {0, 1}, uploaded \in {0, 1} :
    /\ db_ops < MaxDbOps
    /\ files' = add_file(files, path, ContentOf(path), matched, uploaded)
    /\ db_last' = DbCall("add_file", path, uploaded)
    /\ db_ops' = db_ops + 1
    /\ CountFlips
    /\ UNCHANGED <<fs, borderline_events, error_events, pipeVars, cacheVars, restVars>>

DbAddFileWithScore ==
  \E path \in DbKeys, matched \in {0, 1}, uploaded \in {0, 1},
     match_score \in OptScores, matched_person \in OptPeople :
    /\ db_ops < MaxDbOps
    /\ files' = add_file_with_score(files, path, ContentOf(path), matched, uploaded,
                                    match_score, matched_person)
    /\ db_last' = DbCall("add_file_with_score", path, uploaded)
    /\ db_ops' = db_ops + 1
    /\ CountFlips
    /\ UNCHANGED <<fs, borderline_events, error_events, pipeVars, cacheVars, restVars>>

DbMarkUploaded ==
  \E path \in DbKeys :
    /\ db_ops < MaxDbOps
    /\ files' = mark_uploaded(files, path)
    /\ db_last' = DbCall("mark_uploaded", path, 1)
    /\ db_ops' = db_ops + 1
    /\ CountFlips
    /\ UNCHANGED <<fs, borderline_events, error_events, pipeVars, cacheVars, restVars>>

\* an exception that leaves the call
Raise(exc) == <<"raise", exc>>

\* ----------------------------------------------------- the Firestore backend
\* FirestoreDatabase._hash_path: the first 32 hex digits of the SHA-256 of the path,
\* the document id
hash_path(path) == <<"sha256[:32]", path>>

Document(path, sha256, matched, uploaded, created_at) ==
  [path |-> path, sha256 |-> sha256, matched |-> matched, uploaded |-> uploaded,
   created_at |-> created_at]

\* FirestoreDatabase.seen: collection.document(doc_id).get().exists
fs_seen(docs, path) == hash_path(path) \in DOMAIN docs

\* FirestoreDatabase.add_file: document(doc_id).set({path, sha256, matched, uploaded,
\* created_at: SERVER_TIMESTAMP}, merge=True) writes each of the five fields, into
\* a new document or over the fields of the one that exists
fs_add_file(docs, path, sha256, matched, uploaded, server_timestamp) ==
  [d \in DOMAIN docs \cup {hash_path(path)} |->
     IF d = hash_path(path)
     THEN Document(path, sha256, matched, uploaded, server_timestamp)
     ELSE docs[d]]

\* FirestoreDatabase.mark_uploaded: document(doc_id).update({"uploaded": 1}); update
\* of a document that does not exist raises google.api_core.exceptions.NotFound
fs_mark_uploaded(docs, path) ==
  IF hash_path(path) \in DOMAIN docs
  THEN [d \in DOMAIN docs |->
          IF d = hash_path(path) THEN [docs[d] EXCEPT !.uploaded = 1] ELSE docs[d]]
  ELSE Raise("NotFound")

\* what one call gave on the SQLite store and on the Firestore store: the value
\* returned (None for the two writes) or the exception raised
BothGave(op, path, sqlite, firestore) ==
  [op |-> op, path |-> path, sqlite |-> sqlite, firestore |-> firestore, before |-> fs.docs]
FsStart == [docs |-> <<>>, last |-> [op |-> "none", path |-> "", sqlite |-> None,
                                    firestore |-> None, before |-> <<>>]]

\* the same seen(path) on both stores
BothSeen ==
  \E path \in DbKeys :
    /\ db_ops < MaxDbOps
    /\ db_ops' = db_ops + 1
    /\ fs' = [fs EXCEPT !.last = BothGave("seen", path, Some(seen(files, path)),
                                          Some(fs_seen(fs.docs, path)))]
    /\ db_last' = DbCall("seen", path, 0)
    /\ UNCHANGED <<db_flips, storeVars, pipeVars, cacheVars, restVars>>

\* the same add_file(path, sha256, matched, uploaded) on both stores
BothAddFile ==
  \E path \in DbKeys, matched \in {0, 1}, uploaded \in {0, 1} :
    /\ db_ops < MaxDbOps
    /\ db_ops' = db_ops + 1
    /\ files' = add_file(files, path, ContentOf(path), matched, uploaded)
    /\ fs' = [docs |-> fs_add_file(fs.docs, path, ContentOf(path), matched, uploaded,
                                   db_ops + 1),
              last |-> BothGave("add_file", path, None, None)]
    /\ db_last' = DbCall("add_file", path, uploaded)
    /\ CountFlips
    /\ UNCHANGED <<borderline_events, error_events, pipeVars, cacheVars, restVars>>

\* the same mark_uploaded(path) on both stores
BothMarkUploaded ==
  \E path \in DbKeys :
    /\ db_ops < MaxDbOps
    /\ db_ops' = db_ops + 1
    /\ files' = mark_uploaded(files, path)
    /\ LET r == fs_mark_uploaded(fs.docs, path)
       IN fs' = IF hash_path(path) \in DOMAIN fs.docs
                THEN [docs |-> r, last |-> BothGave("mark_uploaded", path, None, None)]
                ELSE [docs |-> fs.docs, last |-> BothGave("mark_uploaded", path, None, r)]
    /\ db_last' = DbCall("mark_uploaded", path, 1)
    /\ CountFlips
    /\ UNCHANGED <<borderline_events, error_events, pipeVars, cacheVars, restVars>>

\* ------------------------------------------------------------ recognition
\* Distances, similarity scores, tolerance and borderline_offset are Python floats.
\* The model keeps the one property of binary floating point that the comparisons
\* below can observe: numbers under 0.5 lie on a grid twice as fine as the numbers
\* from 0.5 to 1.0, so 1.0 - x is rounded when x sits on the fine grid only.
One == 4 * Scale
Half == 2 * Scale
Floats == {v \in 0..One : v < Half \/ v % 2 = 0}

\* the result of a float subtraction whose exact value is v: the nearest float, a tie
\* going to the even mantissa
fl(v) ==
  IF v < Half \/ v % 2 = 0 THEN v
  ELSE IF (v + 1) % 4 = 0 THEN v + 1 ELSE v - 1

\* A probe image is the sequence of its detected faces that pass the size filter;
\* a face gives, per known person, the smallest face_distance to that person's
\* reference encodings.
RawVals == Floats
Faces == [KnownPeople -> RawVals]
Probes == UNION {[1..n -> Faces] : n \in 0..MaxFaces}

Max(S) == CHOOSE x \in S : \A y \in S : y <= x

Tuple2(matched, who) == [arity |-> 2, matched |-> matched, who |-> who, scores |-> <<>>]
Tuple3(matched, who, scores) == [arity |-> 3, matched |-> matched, who |-> who, scores |-> scores]

\* dlib_backend.best_match(known, img, tolerance, min_face_size, return_scores):
\* per face and person, best_sim = 1.0 - min(face_distance), scores[person] is the
\* largest best_sim, and the person matches when compare_faces finds a distance
\* <= tolerance; returns (len(matches) > 0, sorted(matches)[, scores])
dlib_best_match(faces, tolerance, return_scores) ==
  IF faces = <<>> THEN IF return_scores THEN Tuple3(FALSE, {}, <<>>) ELSE Tuple2(FALSE, {})
  ELSE LET matches == {p \in KnownPeople : \E i \in DOMAIN faces : faces[i][p] <= tolerance}
           scores == [p \in KnownPeople |-> Max({fl(One - faces[i][p]) : i \in DOMAIN faces})]
       IN IF return_scores THEN Tuple3(matches # {}, matches, scores)
          ELSE Tuple2(matches # {}, matches)

\* factory.best_match hands return_scores= to the backend's best_match; the
\* insightface backend's best_match has no such parameter, so the call raises TypeError
factory_best_match(faces, backend_name, tolerance, return_scores) ==
  IF backend_name = "face_recognition"
  THEN [raised |-> FALSE, result |-> dlib_best_match(faces, tolerance, return_scores)]
  ELSE [raised |-> TRUE, result |-> Tuple2(FALSE, {})]

\* handler.process_fn: the process closure of build_processor
process_fn(faces) ==
  factory_best_match(faces, cfg.backend, cfg.tolerance, cfg.return_scores)

\* if len(result) == 3: matched, who, scores = result  else: scores = {}
ScoresOf(result) == IF result.arity = 3 THEN result.scores ELSE <<>>

\* max(scores.values()) if scores else None
best_score_of(scores) ==
  IF DOMAIN scores = {} THEN None ELSE Some(Max({scores[p] : p \in DOMAIN scores}))

\* max(scores, key=scores.get) if scores else None: the first key, in the dict's
\* insertion order, that carries the maximum
best_person_of(scores) ==
  IF DOMAIN scores = {} THEN None
  ELSE LET m == Max({scores[p] : p \in DOMAIN scores})
           i == CHOOSE i \in 1..Len(KnownOrder) :
                  /\ KnownOrder[i] \in DOMAIN scores
                  /\ scores[KnownOrder[i]] = m
                  /\ \A j \in 1..(i - 1) :
                       KnownOrder[j] \in DOMAIN scores => scores[KnownOrder[j]] # m
       IN Some(KnownOrder[i])

\* borderline_low <= best_score <= threshold: the closed band
is_borderline_closed(alert_manager, best_score, is_matched, tolerance, borderline_offset) ==
  /\ alert_manager
  /\ best_score # None
  /\ ~is_matched
  /\ LET threshold == fl(One - tolerance)
         borderline_low == fl(threshold - borderline_offset)
     IN borderline_low <= best_score[1] /\ best_score[1] <= threshold

\* if alert_manager and best_score is not None and not is_matched:
\*     threshold = 1.0 - tolerance; borderline_low = threshold - borderline_offset
\*     if borderline_low <= best_score < threshold: record_borderline(...)
is_borderline(alert_manager, best_score, is_matched, tolerance, borderline_offset) ==
  /\ alert_manager
  /\ best_score # None
  /\ ~is_matched
  /\ LET threshold == fl(One - tolerance)
         borderline_low == fl(threshold - borderline_offset)
     IN borderline_low <= best_score[1] /\ best_score[1] < threshold

\* --------------------------------------------------------------- pipeline
\* The part of the state one pipeline run reads and writes.
World == [files |-> files, bl |-> borderline_events, err |-> error_events,
          disk |-> disk, recog |-> recog_calls, onm |-> on_match_calls]

\* What the environment decides for one item: whether the image decodes, whether
\* process_fn returns, the faces it finds, whether the upload succeeds, whether the
\* store accepts the borderline event, whether the blob downloads, whether the file
\* can be unlinked.
\* A run reads upload_ok only for a matched item and bl_ok only for an unmatched one,
\* and reads nothing after the first failure, so the inputs that differ only in a
\* value no run reads are left out.
Input(decode, recog_ok, faces, upload_ok, bl_ok, download_ok, unlink_ok) ==
  [decode |-> decode, recog_ok |-> recog_ok, faces |-> faces, upload_ok |-> upload_ok,
   bl_ok |-> bl_ok, download_ok |-> download_ok, unlink_ok |-> unlink_ok]

InputsOver(P) ==
  {Input(TRUE, TRUE, f, ok, ok, TRUE, TRUE) : f \in P, ok \in BOOLEAN}
    \cup {Input(TRUE, TRUE, f, TRUE, TRUE, TRUE, FALSE) : f \in P}
    \cup {Input(FALSE, TRUE, <<>>, TRUE, TRUE, TRUE, TRUE),
          Input(TRUE, FALSE, <<>>, TRUE, TRUE, TRUE, TRUE),
          Input(TRUE, TRUE, <<>>, TRUE, TRUE, FALSE, TRUE)}

\* the probes of the multi-item runs: no face, or one face that is Alice at a distance
\* of exactly the tolerance of Configs or one step past it
ScanProbes ==
  {<<>>} \cup {<<[p \in KnownPeople |-> IF p = "Alice" THEN d ELSE One]>> : d \in {2, 3}}

\* the probes of the two-item runs: one face whose distance to Alice ranges over every
\* float and which is far from Bob
ClassifyProbes ==
  {<<[p \in KnownPeople |-> IF p = "Alice" THEN d ELSE One]>> : d \in RawVals}

ScanInputs == InputsOver(ScanProbes)
ItemInputs == InputsOver(Probes)
ClassifyInputs == InputsOver(ClassifyProbes)

\* the inputs of the probe set that Init has chosen
Inputs ==
  CASE probes = "scan" -> ScanInputs
    [] probes = "item" -> ItemInputs
    [] probes = "classify" -> ClassifyInputs
    [] OTHER -> {}

BoolInt(b) == IF b THEN 1 ELSE 0

\* no error event is written
record_error_never(w, error_type, file_path) == w

\* AlertManager.record_error, when an alert manager is configured
record_error(w, error_type, file_path) ==
  IF cfg.alerting THEN [w EXCEPT !.err = add_error_event(@, error_type, file_path)] ELSE w

\* p.unlink(): the file is gone
unlink(w, p) == [w EXCEPT !.disk = @ \ {p}]

\* Uploader.on_match(p, who, dedup_key=None): both callers pass (p, who) only, so
\* record_key is str(p).  upload_bytes, create_media_item, then mark_uploaded; on any
\* exception record_error("upload", ..., record_key) and re-raise.
on_match(w, p, inp) ==
  LET record_key == p
  IN IF inp.upload_ok
     THEN [w |-> [w EXCEPT !.files = mark_uploaded(@, record_key)], raised |-> FALSE]
     ELSE [w |-> record_error(w, "upload", record_key), raised |-> TRUE]

Out(w, raised, is_matched, had_error, stage, bl_called, onm, scores, who) ==
  [w |-> w, raised |-> raised, is_matched |-> is_matched, had_error |-> had_error,
   stage |-> stage, bl_called |-> bl_called, onm |-> onm, scores |-> scores, who |-> who,
   unlink |-> "none"]

\* the file is unlinked whatever the setting says
Deleted_always(o, enabled, p, unlink_ok) ==
  IF unlink_ok /\ p \in o.w.disk
  THEN [o EXCEPT !.w = unlink(@, p), !.unlink = "ok"]
  ELSE [o EXCEPT !.unlink = "failed"]

\* if cfg.delete_...: try: p.unlink() except Exception: logger.warning(...)
Deleted(o, enabled, p, unlink_ok) ==
  IF ~enabled THEN o
  ELSE IF unlink_ok /\ p \in o.w.disk
       THEN [o EXCEPT !.w = unlink(@, p), !.unlink = "ok"]
       ELSE [o EXCEPT !.unlink = "failed"]

\* _process_image_file(image_path, dedup_key, handler, logger) -> (is_matched, had_error);
\* raised is TRUE when an exception leaves the function
process_image_file(w, image_path, dedup_key, inp) ==
  IF ~(inp.decode /\ image_path \in w.disk)
  THEN Out(w, TRUE, FALSE, FALSE, "decode", FALSE, "none", <<>>, {})
  ELSE
  LET h == ContentOf(image_path)
      w1 == [w EXCEPT !.recog[dedup_key] = @ + 1]
  IN
  IF ~inp.recog_ok \/ process_fn(inp.faces).raised
  THEN Out(w1, TRUE, FALSE, FALSE, "recognize", FALSE, "none", <<>>, {})
  ELSE
  LET result == process_fn(inp.faces).result
      is_matched == result.matched
      scores == ScoresOf(result)
      best_score == best_score_of(scores)
      best_person == best_person_of(scores)
      bl == is_borderline(cfg.alerting, best_score, is_matched,
                          cfg.tolerance, cfg.borderline_offset)
  IN
  IF bl /\ ~inp.bl_ok
  THEN Out(w1, TRUE, is_matched, FALSE, "borderline", TRUE, "none", scores, result.who)
  ELSE
  LET w2 == IF bl THEN [w1 EXCEPT !.bl = add_borderline_event(
                           @, dedup_key, best_score[1], cfg.tolerance, best_person)]
            ELSE w1
      w3 == [w2 EXCEPT !.files = add_file_with_score(
               @, dedup_key, h, BoolInt(is_matched), 0, best_score,
               IF is_matched THEN best_person ELSE None)]
  IN
  IF is_matched
  THEN LET om == on_match([w3 EXCEPT !.onm[dedup_key] = @ + 1], image_path, inp)
       IN IF ~om.raised
          THEN Deleted(Out(om.w, FALSE, TRUE, FALSE, "done", bl, "ok", scores, result.who),
                       cfg.delete_source_after_upload, image_path, inp.unlink_ok)
          ELSE Out(record_error(om.w, "upload", dedup_key),
                   FALSE, TRUE, TRUE, "done", bl, "raised", scores, result.who)
  ELSE Deleted(Out(w3, FALSE, FALSE, FALSE, "done", bl, "none", scores, result.who),
               cfg.delete_unmatched_after_processing, image_path, inp.unlink_ok)

\* NewImageHandler._handle_file(p), called by on_created, which logs any exception
handle_file(w, p, inp) ==
  IF seen(w.files, p)
  THEN Out(w, FALSE, FALSE, FALSE, "seen", FALSE, "none", <<>>, {})
  ELSE
  IF ~(inp.decode /\ p \in w.disk)
  THEN Out(record_error(w, "processing", p),
           FALSE, FALSE, FALSE, "decode", FALSE, "none", <<>>, {})
  ELSE
  LET h == ContentOf(p)
      w1 == [w EXCEPT !.recog[p] = @ + 1]
  IN
  IF ~inp.recog_ok \/ process_fn(inp.faces).raised
  THEN Out(w1, TRUE, FALSE, FALSE, "recognize", FALSE, "none", <<>>, {})
  ELSE
  LET result == process_fn(inp.faces).result
      matched == result.matched
      scores == ScoresOf(result)
      best_score == best_score_of(scores)
      best_person == best_person_of(scores)
      bl == is_borderline(cfg.alerting, best_score, matched,
                          cfg.tolerance, cfg.borderline_offset)
  IN
  IF bl /\ ~inp.bl_ok
  THEN Out(w1, TRUE, matched, FALSE, "borderline", TRUE, "none", scores, result.who)
  ELSE
  LET w2 == IF bl THEN [w1 EXCEPT !.bl = add_borderline_event(
                           @, p, best_score[1], cfg.tolerance, best_person)]
            ELSE w1
      w3 == [w2 EXCEPT !.files = add_file_with_score(
               @, p, h, BoolInt(matched), 0, best_score,
               IF matched THEN best_person ELSE None)]
  IN
  IF matched
  THEN LET om == on_match([w3 EXCEPT !.onm[p] = @ + 1], p, inp)
       IN IF ~om.raised
          THEN Deleted(Out(om.w, FALSE, TRUE, FALSE, "done", bl, "ok", scores, result.who),
                       cfg.delete_source_after_upload, p, inp.unlink_ok)
          ELSE Out(om.w, TRUE, TRUE, FALSE, "done", bl, "raised", scores, result.who)
  ELSE Deleted(Out(w3, FALSE, FALSE, FALSE, "done", bl, "none", scores, result.who),
               cfg.delete_unmatched_after_processing, p, inp.unlink_ok)

\* ------------------------------------------------------ scan_and_process_once
WatchDirs == <<"D1", "D0", "gs://b/">>
is_gcs_uri(dir_path) == dir_path = "gs://b/"
DirOrder == <<"D1/notes.txt", "D1/L1.jpg">>
GcsOrder == <<"gs://b/G1.jpg">>
ExistingDirs == {"D1"}
image_extensions == LocalImages \cup GcsImages \cup TempPaths

\* list_gcs_images(gcs_uri): the image blobs under the prefix
list_gcs_images(gcs_uri) == SelectSeq(GcsOrder, LAMBDA f : f \in bucket)

\* pd.iterdir(): the entries of the directory that exist when the loop starts
iterdir(dir_path) == SelectSeq(DirOrder, LAMBDA f : f \in disk)

ScanIdle == [pc |-> "idle", dir |-> 0, todo |-> <<>>, listed |-> {}, visited |-> {}, new_files |-> 0, processed |-> 0,
             matched |-> 0, errors |-> 0, uploaded |-> 0, success |-> FALSE, returned |-> 0]

NoLast == [mode |-> "none", key |-> "", was_seen |-> FALSE,
           out |-> [raised |-> FALSE, is_matched |-> FALSE, had_error |-> FALSE,
                    stage |-> "none", bl_called |-> FALSE, onm |-> "none",
                    scores |-> <<>>, who |-> {}, unlink |-> "none"]]

Trace(mode, key, was_seen, o) ==
  [mode |-> mode, key |-> key, was_seen |-> was_seen,
   out |-> [f \in DOMAIN NoLast.out |-> o[f]]]

SetWorld(w) ==
  /\ files' = w.files
  /\ borderline_events' = w.bl
  /\ error_events' = w.err
  /\ disk' = w.disk
  /\ recog_calls' = w.recog
  /\ on_match_calls' = w.onm

pipeFrame == <<dbVars, cacheVars, restVars>>

\* new_files = processed = matched = errors = 0, then the loop over dirs starts
ScanStart ==
  /\ scan.pc \in {"idle", "done"}
  /\ scans < budget.scans
  /\ scans' = scans + 1
  /\ scan' = [ScanIdle EXCEPT !.pc = "dir", !.dir = 1]
  /\ UNCHANGED <<storeVars, envVars, disk, recog_calls, on_match_calls, watch_events, last, pipeFrame>>

\* (listed collects the entries the listings returned)
EnterItems(sc, listing) ==
  IF listing = <<>> THEN [sc EXCEPT !.dir = @ + 1]
  ELSE [sc EXCEPT !.pc = "items", !.todo = listing,
                  !.listed = @ \cup {listing[i] : i \in DOMAIN listing}]

\* for dir_path in dirs: list the GCS prefix (a listing failure counts one error and
\* moves on), or skip a local directory that does not exist, or start iterating it
ScanEnterDir ==
  /\ scan.pc = "dir"
  /\ scan.dir <= Len(WatchDirs)
  /\ LET dir_path == WatchDirs[scan.dir]
     IN \E list_ok \in BOOLEAN :
          scan' = IF is_gcs_uri(dir_path)
                  THEN IF list_ok
                       THEN EnterItems(scan, list_gcs_images(dir_path))
                       ELSE [scan EXCEPT !.errors = @ + 1, !.dir = @ + 1]
                  ELSE IF dir_path \notin ExistingDirs
                       THEN [scan EXCEPT !.dir = @ + 1]
                       ELSE EnterItems(scan, iterdir(dir_path))
  /\ UNCHANGED <<storeVars, envVars, disk, recog_calls, on_match_calls, scans, watch_events, last, pipeFrame>>

\* the loop variable moves on; after the last entry the loop over dirs continues
\* (visited collects the entries the loop body was run for)
Advance(sc) ==
  IF Len(sc.todo) > 1 THEN [sc EXCEPT !.todo = Tail(@), !.visited = @ \cup {Head(sc.todo)}]
  ELSE [sc EXCEPT !.todo = <<>>, !.pc = "dir", !.dir = @ + 1,
                  !.visited = @ \cup {Head(sc.todo)}]

\* an item whose upload failed is not counted as processed
Tally_skip_failed(sc, o) ==
  IF o.raised \/ o.had_error
  THEN [sc EXCEPT !.new_files = @ + 1, !.errors = @ + 1]
  ELSE [sc EXCEPT !.new_files = @ + 1, !.processed = @ + 1,
                  !.matched = @ + BoolInt(o.is_matched)]

\* new_files += 1 before the try; then processed += 1, matched += 1 if is_matched,
\* errors += 1 if had_error; or errors += 1 alone in the except clause (returned is
\* no variable of the code: it counts the on_match calls of the scan that returned)
Tally(sc, o) ==
  IF o.raised
  THEN [sc EXCEPT !.new_files = @ + 1, !.errors = @ + 1]
  ELSE [sc EXCEPT !.new_files = @ + 1, !.processed = @ + 1,
                  !.matched = @ + BoolInt(o.is_matched),
                  !.errors = @ + BoolInt(o.had_error),
                  !.returned = @ + BoolInt(o.onm = "ok")]

\* one iteration of the local loop: skip what is no image file, skip what was seen,
\* else count it, process it and tally; an exception counts an error and records a
\* processing error
ScanLocalItem ==
  /\ scan.pc = "items"
  /\ scan.todo # <<>>
  /\ ~is_gcs_uri(WatchDirs[scan.dir])
  /\ LET image_path == Head(scan.todo)
         dedup_key == image_path
     IN IF image_path \notin image_extensions
        THEN /\ scan' = Advance(scan)
             /\ UNCHANGED <<storeVars, disk, recog_calls, on_match_calls, last>>
        ELSE IF seen(files, dedup_key)
        THEN /\ scan' = Advance(scan)
             /\ last' = Trace("scan", dedup_key, TRUE, NoLast.out)
             /\ UNCHANGED <<storeVars, disk, recog_calls, on_match_calls>>
        ELSE \E inp \in Inputs :
               LET o == process_image_file(World, image_path, dedup_key, inp)
                   w == IF o.raised THEN record_error(o.w, "processing", image_path) ELSE o.w
               IN /\ SetWorld(w)
                  /\ scan' = Advance(Tally(scan, o))
                  /\ last' = Trace("scan", dedup_key, FALSE, o)
  /\ UNCHANGED <<envVars, scans, watch_events, pipeFrame>>

\* download_gcs_blob(gcs_path) when it raises: NamedTemporaryFile(delete=False) has
\* created the temp file before blob.download_to_filename runs, so a failed download
\* leaves it on disk (left) unless the failure came before the file was created or the
\* client library removed it; the caller's local_path is still None and its finally
\* clause removes nothing
download_gcs_blob_raised(w, gcs_path, left) ==
  IF left THEN [w EXCEPT !.disk = @ \cup {TempOf(gcs_path)}] ELSE w

\* one iteration of the GCS loop: skip what was seen, else count it, download it to a
\* temp file, process it under the gs:// key and tally; the temp file is removed in
\* the finally clause when the download returned (local_path is not None)
ScanGcsItem ==
  /\ scan.pc = "items"
  /\ scan.todo # <<>>
  /\ is_gcs_uri(WatchDirs[scan.dir])
  /\ LET gcs_path == Head(scan.todo)
     IN IF seen(files, gcs_path)
        THEN /\ scan' = Advance(scan)
             /\ last' = Trace("scan", gcs_path, TRUE, NoLast.out)
             /\ UNCHANGED <<storeVars, disk, recog_calls, on_match_calls>>
        ELSE \E inp \in Inputs :
               IF ~inp.download_ok
               THEN /\ \E left \in BOOLEAN :
                         SetWorld(download_gcs_blob_raised(
                                    record_error(World, "processing", gcs_path), gcs_path, left))
                    /\ scan' = Advance([scan EXCEPT !.new_files = @ + 1, !.errors = @ + 1])
                    /\ last' = Trace("scan", gcs_path, FALSE,
                                     [NoLast.out EXCEPT !.raised = TRUE, !.stage = "download"])
               ELSE LET local_path == TempOf(gcs_path)
                        o == process_image_file([World EXCEPT !.disk = @ \cup {local_path}],
                                                local_path, gcs_path, inp)
                        w == IF o.raised THEN record_error(o.w, "processing", gcs_path) ELSE o.w
                    IN /\ SetWorld(unlink(w, local_path))
                       /\ scan' = Advance(Tally(scan, o))
                       /\ last' = Trace("scan", gcs_path, FALSE, o)
  /\ UNCHANGED <<envVars, scans, watch_events, pipeFrame>>

\* success = errors == 0 and processed == new_files; uploaded = matched - errors
ScanFinish ==
  /\ scan.pc = "dir"
  /\ scan.dir > Len(WatchDirs)
  /\ scan' = [scan EXCEPT !.pc = "done",
                          !.success = (scan.errors = 0 /\ scan.processed = scan.new_files),
                          !.uploaded = scan.matched - scan.errors]
  /\ UNCHANGED <<storeVars, envVars, disk, recog_calls, on_match_calls, scans, watch_events, last, pipeFrame>>

\* ------------------------------------------------------------------ watch mode
\* on_created(event) for an image file of a watched directory: _handle_file(p) inside
\* try/except.  The observer delivers events while no scan is running here.
WatchEvent ==
  /\ scan.pc \in {"idle", "done"}
  /\ watch_events < budget.watch_events
  /\ watch_events' = watch_events + 1
  /\ \E p \in LocalImages, inp \in Inputs :
       LET o == handle_file(World, p, inp)
       IN /\ SetWorld(o.w)
          /\ last' = Trace("watch", p, o.stage = "seen", o)
  /\ UNCHANGED <<envVars, scan, scans, pipeFrame>>

\* ------------------------------------------------------- embedding cache
\* known_root holds one reference image per person and a file that is no image.
RefFiles == {"Alice/a1.jpg", "Bob/b1.jpg"}
RefOthers == {"Alice/notes.txt"}
RefEntries == RefFiles \cup RefOthers

\* only the images that were put there by hand count as images
valid_extensions_known(f) == f \in RefFiles

\* img_path.suffix.lower() in valid_extensions and no "Zone.Identifier" in the name:
\* every entry but the ones that are no images
valid_extensions(f) == f \notin RefOthers

\* f"{mtime:.6f}": st_mtime is a float of seconds and the text keeps six decimals, so
\* two neighbouring st_mtime values give one text
format_mtime(mtime) == (mtime + 1) \div 2

sha256(content) == <<"sha256", content>>

\* _compute_files_hash(known_root): sha256 of the sorted "relpath:mtime" lines of the
\* image files that exist
compute_files_hash(d) ==
  sha256({<<f, format_mtime(d[f])>> : f \in {g \in DOMAIN d : valid_extensions(g) /\ d[g] # 0}})

\* the parameters of a load_known_faces call; det_thresh_known in thousandths
Params(backend_name, det_thresh_known, return_per_file) ==
  [backend_name |-> backend_name, det_thresh_known |-> det_thresh_known,
   return_per_file |-> return_per_file]

ParamSets ==
  {Params("insightface", 300, FALSE), Params("insightface", 304, FALSE),
   Params("face_recognition", 300, FALSE), Params("face_recognition", 300, TRUE),
   Params("insightface", 300, TRUE)}

\* _make_cache_key: f"{backend_name}_mfs.._aug.._detknown{det_thresh_known:.2f}_best.._perfile.."
make_cache_key(p) ==
  <<p.backend_name, (p.det_thresh_known + 5) \div 10, p.return_per_file>>

\* backend.load_known_faces: the encodings of the files found in known_root (the
\* directory state they were computed from stands for them) and the list of people;
\* the face_recognition backend is called with known_root only
backend_load_known_faces(d, p) ==
  [encodings |-> [from |-> d,
                  backend_name |-> p.backend_name,
                  det_thresh_known |-> IF p.backend_name = "face_recognition" THEN 0
                                       ELSE p.det_thresh_known,
                  return_per_file |-> p.backend_name # "face_recognition" /\ p.return_per_file],
   people |-> KnownOrder]

pickle_dumps(x) == <<"pickle", x>>
pickle_loads(b) == b[2]
json_dumps(x) == <<"json", x>>
json_loads(t) == t[2]

\* A stored blob or text that no longer deserializes, and the exception the load of
\* it raises: pickle.loads raises UnpicklingError for most damaged blobs, EOFError for
\* an empty or cut-off one and ModuleNotFoundError for one that names a module this
\* installation lacks; json.loads raises JSONDecodeError for a malformed text and
\* UnicodeDecodeError for bytes that are not UTF-8.
Damaged(exc) == <<"damaged", exc>>
UnpickleErrors == {"UnpicklingError", "EOFError", "ModuleNotFoundError"}
JsonErrors == {"JSONDecodeError", "UnicodeDecodeError"}
loads_raises(b) == IF b[1] = "damaged" THEN b[2] ELSE "none"

\* except (pickle.UnpicklingError, json.JSONDecodeError)
caught(exc) == exc \in {"UnpicklingError", "JSONDecodeError"}

\* the lookup never finds a valid row
get_cached_embeddings_never(cache, cache_key, files_hash) == None

\* Database.get_cached_embeddings(cache_key, files_hash): None when there is no row for
\* the key or its files_hash differs, else (encodings, people); inside the try the
\* blob is unpickled first and the people text parsed second, a caught exception gives
\* None and any other one leaves the call
get_cached_embeddings(cache, cache_key, files_hash) ==
  IF cache_key \notin DOMAIN cache THEN None
  ELSE IF cache[cache_key].files_hash # files_hash THEN None
  ELSE LET row == cache[cache_key]
           exc == IF loads_raises(row.encodings_blob) # "none"
                  THEN loads_raises(row.encodings_blob)
                  ELSE loads_raises(row.people_json)
       IN IF exc = "none"
          THEN Some([encodings |-> pickle_loads(row.encodings_blob),
                     people |-> json_loads(row.people_json)])
          ELSE IF caught(exc) THEN None
          ELSE Raise(exc)

\* INSERT OR IGNORE in place of INSERT OR REPLACE: a row of the key stays as it is
save_cached_embeddings_ignore(cache, cache_key, files_hash, encodings, people) ==
  IF cache_key \in DOMAIN cache THEN cache
  ELSE cache @@ (cache_key :> [files_hash |-> files_hash,
                               encodings_blob |-> pickle_dumps(encodings),
                               people_json |-> json_dumps(people)])

\* Database.save_cached_embeddings: INSERT OR REPLACE INTO embedding_cache
save_cached_embeddings(cache, cache_key, files_hash, encodings, people) ==
  [k \in DOMAIN cache \cup {cache_key} |->
     IF k = cache_key
     THEN [files_hash |-> files_hash, encodings_blob |-> pickle_dumps(encodings),
           people_json |-> json_dumps(people)]
     ELSE cache[k]]

\* db is not None and hasattr(db, ...) and not return_per_file; a database is supplied
uses_cache(p) == ~p.return_per_file

LoaderIdle == [pc |-> "idle"]
NoRet == [n |-> 0, kind |-> "none"]
NoChange == [kind |-> "none", n |-> 0]

Returned(kind, p, value, start, backend_at_ret) ==
  [n |-> loads + (IF loader.pc = "idle" THEN 1 ELSE 0), kind |-> kind, params |-> p,
   value |-> value,
   changes_at_start |-> start.changes, changes_at_ret |-> dir_changes,
   backend_at_start |-> start.backend, backend_at_ret |-> backend_at_ret,
   dir_at_lookup |-> start.dir, cache_before |-> start.cache]

CallStart == [changes |-> dir_changes, backend |-> backend_loads, dir |-> refdir,
              cache |-> embedding_cache]

cacheFrame == <<storeVars, dbVars, pipeVars, restVars>>

\* load_known_faces up to the cache lookup: a valid row is returned at once, and an
\* exception of get_cached_embeddings leaves load_known_faces, which has no try
LoadLookup ==
  /\ loader.pc = "idle"
  /\ loads < MaxLoads
  /\ loads' = loads + 1
  /\ \E p \in ParamSets :
       LET cached == IF uses_cache(p)
                     THEN get_cached_embeddings(embedding_cache, make_cache_key(p),
                                                compute_files_hash(refdir))
                     ELSE None
       IN IF cached # None /\ Len(cached) = 2
          THEN /\ ret' = Returned("raised", p, cached, CallStart, backend_loads)
               /\ prev_ret' = ret
               /\ UNCHANGED loader
          ELSE IF cached # None
          THEN /\ ret' = Returned("hit", p, cached[1], CallStart, backend_loads)
               /\ prev_ret' = ret
               /\ UNCHANGED loader
          ELSE /\ loader' = [pc |-> "miss", params |-> p, start |-> CallStart]
               /\ UNCHANGED <<ret, prev_ret>>
  /\ UNCHANGED <<refdir, embedding_cache, backend_loads, dir_changes, last_change, cacheFrame>>

\* the backend reads known_root; the face_recognition backend asked for the per-file
\* shape raises ValueError after it has computed
LoadCompute ==
  /\ loader.pc = "miss"
  /\ backend_loads' = backend_loads + 1
  /\ LET p == loader.params
     IN IF p.backend_name = "face_recognition" /\ p.return_per_file
        THEN /\ loader' = LoaderIdle
             /\ ret' = Returned("raised", p, None, loader.start, backend_loads + 1)
             /\ prev_ret' = ret
        ELSE /\ loader' = [pc |-> "computed", params |-> p, start |-> loader.start,
                             result |-> backend_load_known_faces(refdir, p)]
             /\ UNCHANGED <<ret, prev_ret>>
  /\ UNCHANGED <<refdir, embedding_cache, loads, dir_changes, last_change, cacheFrame>>

\* files_hash is computed again, now, for the row that is saved; the result is returned
LoadSave ==
  /\ loader.pc = "computed"
  /\ LET p == loader.params
         result == loader.result
     IN /\ embedding_cache' =
             IF uses_cache(p)
             THEN save_cached_embeddings(embedding_cache, make_cache_key(p),
                                         compute_files_hash(refdir),
                                         result.encodings, result.people)
             ELSE embedding_cache
        /\ ret' = Returned("miss", p, result, loader.start, backend_loads)
        /\ prev_ret' = ret
  /\ loader' = LoaderIdle
  /\ UNCHANGED <<refdir, backend_loads, loads, dir_changes, last_change, cacheFrame>>

\* a reference image is added, removed or touched (its mtime changes), at any time
DirChange ==
  /\ dir_changes < MaxDirChanges
  /\ dir_changes' = dir_changes + 1
  /\ \E f \in RefFiles, m \in 0..MaxMtime :
       /\ m # refdir[f]
       /\ refdir' = [refdir EXCEPT ![f] = m]
       /\ last_change' = [kind |-> IF refdir[f] = 0 THEN "add"
                                   ELSE IF m = 0 THEN "remove" ELSE "touch",
                          n |-> dir_changes + 1, file |-> f,
                          before |-> refdir, after |-> refdir']
  /\ UNCHANGED <<embedding_cache, loader, backend_loads, loads, ret, prev_ret, cacheFrame>>

CacheStart ==
  /\ refdir = [f \in RefEntries |-> 1]
  /\ embedding_cache = <<>>
  /\ loader = LoaderIdle
  /\ backend_loads = 0
  /\ loads = 0
  /\ dir_changes = 0
  /\ last_change = NoChange
  /\ ret = NoRet
  /\ prev_ret = NoRet

\* ------------------------------------------------------------- alerting
\* AlertSettings: batch_interval_minutes, recipients, and whether smtp is set (the
\* AlertManager builds an EmailSender only when it is)
AlertSettings(batch_interval_minutes, recipients, smtp) ==
  [batch_interval_minutes |-> batch_interval_minutes, recipients |-> recipients, smtp |-> smtp]

\* A datetime is a time in minutes and its tzinfo: aware (UTC) or naive.
Aware(t) == [t |-> t, tz |-> "utc"]
Naive(t) == [t |-> t, tz |-> "naive"]

\* sent_ts DATETIME DEFAULT CURRENT_TIMESTAMP: the UTC time as the text
\* 'YYYY-MM-DD HH:MM:SS', which carries no offset
current_timestamp(t) == <<"YYYY-MM-DD HH:MM:SS", t>>

\* datetime.fromisoformat(text): a text without an offset gives a naive datetime
fromisoformat(text) == Naive(text[2])

\* datetime.now(timezone.utc)
datetime_now_utc(t) == Aware(t)

\* a - b on datetimes: TypeError when one is naive and the other aware
datetime_sub(a, b) ==
  IF a.tz # b.tz THEN [raised |-> TRUE, minutes |-> 0]
  ELSE [raised |-> FALSE, minutes |-> a.t - b.t]

\* SELECT id ... WHERE alerted=0: the ids (positions) of the pending events
get_pending_alerts(evs) == {i \in DOMAIN evs : evs[i].alerted = 0}

\* the UPDATE marks no row
mark_events_alerted_none(evs, event_ids) == evs

\* UPDATE <table> SET alerted=1 with no WHERE clause: every row is marked
mark_events_alerted_all(evs, event_ids) ==
  [i \in DOMAIN evs |-> [evs[i] EXCEPT !.alerted = 1]]

\* UPDATE <table> SET alerted=1 WHERE id IN (event_ids)
mark_events_alerted(evs, event_ids) ==
  [i \in DOMAIN evs |-> IF i \in event_ids THEN [evs[i] EXCEPT !.alerted = 1] ELSE evs[i]]

\* INSERT INTO alert_batches(alert_type, recipient, event_count); sent_ts defaults
record_alert_sent(batches, alert_type, recipient, event_count, t) ==
  Append(batches, [alert_type |-> alert_type, recipient |-> recipient,
                   event_count |-> event_count, sent_ts |-> current_timestamp(t)])

\* SELECT MAX(sent_ts) FROM alert_batches, parsed with fromisoformat; None when empty
get_last_alert_time(batches) ==
  IF batches = <<>> THEN None
  ELSE LET i == CHOOSE i \in DOMAIN batches :
                  \A j \in DOMAIN batches : batches[j].sent_ts[2] <= batches[i].sent_ts[2]
       IN Some(fromisoformat(batches[i].sent_ts))

\* AlertManager.should_send_alert(): [raised, value]
should_send_alert(bl, err, batches, settings, t) ==
  LET last_alert == get_last_alert_time(batches)
      pending == get_pending_alerts(bl) # {} \/ get_pending_alerts(err) # {}
  IN IF last_alert = None THEN [raised |-> FALSE, value |-> pending]
     ELSE LET time_since_last == datetime_sub(datetime_now_utc(t), last_alert[1])
          IN IF time_since_last.raised THEN [raised |-> TRUE, value |-> FALSE]
             ELSE IF time_since_last.minutes < settings.batch_interval_minutes
                  THEN [raised |-> FALSE, value |-> FALSE]
                  ELSE [raised |-> FALSE, value |-> pending]

\* the transport reports success whatever happened
send_email_always(recipients, transport_ok) == TRUE

\* EmailSender.send_email(recipients, ...): False without recipients or when the
\* SMTP exchange raises, True otherwise
send_email(recipients, transport_ok) == recipients # <<>> /\ transport_ok

\* what send_pending_alerts gathers: the pending ids of both tables, their number and
\* the alert type
Gathered(bl, err) ==
  LET b == get_pending_alerts(bl)
      e == get_pending_alerts(err)
  IN [borderline |-> b, errors |-> e, total_events |-> Cardinality(b) + Cardinality(e),
      alert_type |-> IF b # {} /\ e # {} THEN "combined"
                     ELSE IF e # {} THEN "error" ELSE "borderline"]

RECURSIVE record_batches(_, _, _, _, _)
\* for recipient in recipients: record_alert_sent(alert_type, recipient, total_events)
record_batches(batches, alert_type, recipients, total_events, t) ==
  IF recipients = <<>> THEN batches
  ELSE record_batches(record_alert_sent(batches, alert_type, Head(recipients), total_events, t),
                      alert_type, Tail(recipients), total_events, t)

\* the tail of send_pending_alerts after a delivered email: mark the gathered events of
\* each table, then record one batch per recipient
mark_and_record(bl, err, batches, g, settings, t) ==
  [bl |-> IF g.borderline # {} THEN mark_events_alerted(bl, g.borderline) ELSE bl,
   err |-> IF g.errors # {} THEN mark_events_alerted(err, g.errors) ELSE err,
   batches |-> record_batches(batches, g.alert_type, settings.recipients, g.total_events, t)]

\* AlertManager.send_pending_alerts() run without interruption:
\* [bl, err, batches, result, delivered]
send_pending_alerts(bl, err, batches, settings, t, transport_ok) ==
  LET g == Gathered(bl, err)
      unchanged == [bl |-> bl, err |-> err, batches |-> batches, result |-> 0,
                    delivered |-> FALSE]
  IN IF ~settings.smtp THEN unchanged
     ELSE IF g.total_events = 0 THEN unchanged
     ELSE IF ~send_email(settings.recipients, transport_ok) THEN unchanged
     ELSE LET m == mark_and_record(bl, err, batches, g, settings, t)
          IN [bl |-> m.bl, err |-> m.err, batches |-> m.batches,
              result |-> g.total_events, delivered |-> TRUE]

\* the amounts by which the clock advances: 10 and 61 minutes after a batch are
\* reached, and so is an elapsed time equal to the default interval
TickSteps == {10, 51, 60}

SenderIdle == [pc |-> "idle"]
NoAlertCall == [op |-> "none", raised |-> FALSE, result |-> 0, at |-> 0,
                pending |-> 0, last_batch |-> None, gathered |-> Gathered(<<>>, <<>>),
                transport_ok |-> FALSE, batches_before |-> 0]
MainIdle == [exited |-> 0, exit_status |-> 0, raised |-> FALSE, success |-> FALSE]

\* the record of an AlertManager call that returned
AlertCall(op, raised, result, g, transport_ok) ==
  [op |-> op, raised |-> raised, result |-> result, at |-> now,
   pending |-> Gathered(borderline_events, error_events).total_events,
   last_batch |-> IF alert_batches = <<>> THEN None
                  ELSE Some(get_last_alert_time(alert_batches)[1].t),
   gathered |-> g, transport_ok |-> transport_ok,
   batches_before |-> Len(alert_batches)]

alertFrame == <<files, dbVars, pipeVars, cacheVars, threadVars, videoVars, retryVars, refreshVars, purgeVars>>

\* record_borderline / record_error called by a pipeline worker
RecordEvent ==
  /\ Len(borderline_events) + Len(error_events) < MaxEvents
  /\ \/ /\ borderline_events' = add_borderline_event(borderline_events, "D1/L1.jpg", 4, 2, Some("Alice"))
        /\ UNCHANGED error_events
     \/ /\ error_events' = add_error_event(error_events, "upload", "D1/L1.jpg")
        /\ UNCHANGED borderline_events
  /\ UNCHANGED <<alert_batches, now, alert_cfg, sender, emails, alert_last, main, alertFrame>>

\* time passes
Tick ==
  /\ \E d \in TickSteps :
       /\ now + d <= MaxClock
       /\ now' = now + d
  /\ UNCHANGED <<storeVars, alert_batches, alert_cfg, sender, emails, alert_last, main, alertFrame>>

\* a call of should_send_alert()
ShouldSend ==
  /\ sender.pc = "idle"
  /\ LET r == should_send_alert(borderline_events, error_events, alert_batches, alert_cfg, now)
     IN alert_last' = AlertCall("should_send_alert", r.raised, r.value,
                                Gathered(<<>>, <<>>), FALSE)
  /\ UNCHANGED <<storeVars, alert_batches, now, alert_cfg, sender, emails, main, alertFrame>>

\* send_pending_alerts() up to the return of send_email: return 0 without a sender,
\* without pending events or when the email was not delivered
SendGather ==
  /\ sender.pc = "idle"
  /\ \E transport_ok \in BOOLEAN :
       LET g == Gathered(borderline_events, error_events)
       IN IF alert_cfg.smtp /\ g.total_events > 0
             /\ send_email(alert_cfg.recipients, transport_ok)
          THEN /\ sender' = [pc |-> "delivered", gathered |-> g, transport_ok |-> transport_ok]
               /\ emails' = emails + 1
               /\ UNCHANGED alert_last
          ELSE /\ alert_last' = AlertCall("send_pending_alerts", FALSE, 0, g, transport_ok)
               /\ UNCHANGED <<sender, emails>>
  /\ UNCHANGED <<storeVars, alert_batches, now, alert_cfg, main, alertFrame>>

\* send_pending_alerts() after the email was delivered: mark the gathered events,
\* record the batches, return total_events
SendMark ==
  /\ sender.pc = "delivered"
  /\ LET m == mark_and_record(borderline_events, error_events, alert_batches,
                              sender.gathered, alert_cfg, now)
     IN /\ borderline_events' = m.bl
        /\ error_events' = m.err
        /\ alert_batches' = m.batches
  /\ alert_last' = AlertCall("send_pending_alerts", FALSE, sender.gathered.total_events,
                             sender.gathered, sender.transport_ok)
  /\ sender' = SenderIdle
  /\ UNCHANGED <<now, alert_cfg, emails, main, alertFrame>>

\* batch-mode main starts scan_and_process_once once the previous run has exited
MainRunStart ==
  /\ main.exited = scans
  /\ ScanStart

\* batch-mode main after the scan returned: if alert_manager and should_send_alert():
\* send_pending_alerts(); then return 0 if result.success else 1.  An exception that
\* leaves main ends the process with status 1.
MainAlerts ==
  /\ scan.pc = "done"
  /\ main.exited < scans
  /\ \E transport_ok \in BOOLEAN :
       LET r == IF cfg.alerting
                THEN should_send_alert(borderline_events, error_events, alert_batches,
                                       alert_cfg, now)
                ELSE [raised |-> FALSE, value |-> FALSE]
           s == IF r.value
                THEN send_pending_alerts(borderline_events, error_events, alert_batches,
                                         alert_cfg, now, transport_ok)
                ELSE [bl |-> borderline_events, err |-> error_events,
                      batches |-> alert_batches, result |-> 0, delivered |-> FALSE]
       IN /\ borderline_events' = s.bl
          /\ error_events' = s.err
          /\ alert_batches' = s.batches
          /\ emails' = emails + BoolInt(s.delivered)
          /\ main' = [exited |-> main.exited + 1,
                      exit_status |-> IF r.raised THEN 1
                                      ELSE IF scan.success THEN 0 ELSE 1,
                      raised |-> r.raised, success |-> scan.success]
  /\ UNCHANGED <<now, alert_cfg, sender, alert_last, alertFrame>>

AlertStart ==
  /\ alert_batches = <<>>
  /\ now = 0
  /\ sender = SenderIdle
  /\ emails = 0
  /\ alert_last = NoAlertCall
  /\ main = MainIdle

\* ------------------------------------------------ threads on one Database
\* Each thread has its own connection (threading.local); a statement runs in the
\* connection's transaction and becomes visible to the others at commit.
Threads == {"t1", "t2"}

WriteOps == {"add_file", "add_file_with_score", "mark_uploaded", "add_borderline_event",
             "add_error_event", "save_cached_embeddings", "mark_events_alerted",
             "record_alert_sent"}
ReadOps == {"seen", "get_cached_embeddings", "get_pending_alerts", "get_last_alert_time"}

\* whether the method body is inside "with self._write_lock:"
uses_write_lock(op) ==
  CASE op = "seen" -> FALSE
    [] op = "add_file" -> TRUE
    [] op = "mark_uploaded" -> TRUE
    [] op = "add_file_with_score" -> TRUE
    [] op = "add_borderline_event" -> TRUE
    [] op = "add_error_event" -> TRUE
    [] op = "get_cached_embeddings" -> FALSE
    [] op = "save_cached_embeddings" -> TRUE
    [] op = "get_pending_alerts" -> FALSE
    [] op = "mark_events_alerted" -> TRUE
    [] op = "get_last_alert_time" -> FALSE
    [] op = "record_alert_sent" -> TRUE

\* the lock is handed out although it is held
can_acquire_always(l) == TRUE

\* threading.Lock: "with" blocks until the lock is free
can_acquire(l) == l = None

DbCallOf(op, path, matched) == [op |-> op, path |-> path, matched |-> matched]
NoCall == DbCallOf("none", "", 0)

\* the calls the threads make: inserts of either kind with differing values
ThreadCalls ==
  {DbCallOf(op, k, m) : op \in {"add_file", "add_file_with_score"}, k \in DbKeys, m \in {0, 1}}
    \cup {DbCallOf("mark_uploaded", k, 0) : k \in DbKeys}
    \cup {DbCallOf(op, "D1/L1.jpg", 0) :
            op \in (WriteOps \cup ReadOps) \ {"add_file", "add_file_with_score", "mark_uploaded"}}

\* the committed tables
Tables == [files |-> files, bl |-> borderline_events, err |-> error_events,
           cache |-> embedding_cache, batches |-> alert_batches]

\* the row an insert call carries
RowOf(c) ==
  IF c.op = "add_file" THEN FileRow(ContentOf(c.path), c.matched, 0, None, None)
  ELSE FileRow(ContentOf(c.path), c.matched, 0, Some(One), Some("Alice"))

\* the statement of a write method, run on the tables db
execute(c, db, t) ==
  LET p0 == Params("face_recognition", 300, FALSE)
      r0 == backend_load_known_faces(refdir, p0)
  IN CASE c.op = "add_file" ->
            [db EXCEPT !.files = add_file(@, c.path, ContentOf(c.path), c.matched, 0)]
       [] c.op = "add_file_with_score" ->
            [db EXCEPT !.files = add_file_with_score(@, c.path, ContentOf(c.path), c.matched, 0,
                                                     Some(One), Some("Alice"))]
       [] c.op = "mark_uploaded" -> [db EXCEPT !.files = mark_uploaded(@, c.path)]
       [] c.op = "add_borderline_event" ->
            [db EXCEPT !.bl = add_borderline_event(@, c.path, 4, 2, Some("Alice"))]
       [] c.op = "add_error_event" -> [db EXCEPT !.err = add_error_event(@, "upload", c.path)]
       [] c.op = "save_cached_embeddings" ->
            [db EXCEPT !.cache = save_cached_embeddings(@, make_cache_key(p0),
                                   compute_files_hash(refdir), r0.encodings, r0.people)]
       [] c.op = "mark_events_alerted" ->
            [db EXCEPT !.err = mark_events_alerted(@, get_pending_alerts(@))]
       [] c.op = "record_alert_sent" ->
            [db EXCEPT !.batches = record_alert_sent(@, "error", "a@x", 1, t)]

NoResult == [returned |-> FALSE, seen |-> FALSE, pending |-> {}, cached |-> None, last_alert |-> None]

\* the value a read method returns on the tables db
read(c, db) ==
  CASE c.op = "seen" -> [NoResult EXCEPT !.returned = TRUE, !.seen = seen(db.files, c.path)]
    [] c.op = "get_cached_embeddings" ->
         [NoResult EXCEPT !.returned = TRUE,
            !.cached = get_cached_embeddings(db.cache,
                         make_cache_key(Params("face_recognition", 300, FALSE)),
                         compute_files_hash(refdir))]
    [] c.op = "get_pending_alerts" ->
         [NoResult EXCEPT !.returned = TRUE, !.pending = get_pending_alerts(db.err)]
    [] c.op = "get_last_alert_time" ->
         [NoResult EXCEPT !.returned = TRUE, !.last_alert = get_last_alert_time(db.batches)]

ThreadIdle == [pc |-> "idle", call |-> NoCall, txn |-> None, result |-> NoResult,
               locked_by_other |-> FALSE]

threadFrame == <<dbVars, pipeVars, refdir, loader, backend_loads, loads, dir_changes,
                 last_change, ret, prev_ret, alertVars, videoVars, retryVars, refreshVars, purgeVars>>

\* a write method enters "with self._write_lock:"
ThreadAcquire(t) ==
  /\ thr[t].pc = "idle"
  /\ thread_ops < MaxThreadOps
  /\ can_acquire(write_lock)
  /\ \E c \in ThreadCalls :
       /\ uses_write_lock(c.op)
       /\ thr' = [thr EXCEPT ![t] = [ThreadIdle EXCEPT !.pc = "locked", !.call = c]]
  /\ write_lock' = Some(t)
  /\ thread_ops' = thread_ops + 1
  /\ UNCHANGED <<storeVars, embedding_cache, first_insert, ignored_inserts, threadFrame>>

\* conn.execute(...) on the thread's connection
ThreadExecute(t) ==
  /\ thr[t].pc = "locked"
  /\ thr' = [thr EXCEPT ![t].pc = "executed", ![t].txn = Some(execute(thr[t].call, Tables, now))]
  /\ UNCHANGED <<storeVars, embedding_cache, write_lock, thread_ops, first_insert,
                 ignored_inserts, threadFrame>>

\* conn.commit(): the transaction becomes the committed state
ThreadCommit(t) ==
  /\ thr[t].pc = "executed"
  /\ LET db == thr[t].txn[1]
         c == thr[t].call
         insert == c.op \in {"add_file", "add_file_with_score"}
     IN /\ files' = db.files
        /\ borderline_events' = db.bl
        /\ error_events' = db.err
        /\ embedding_cache' = db.cache
        /\ alert_batches' = db.batches
        /\ first_insert' = IF insert /\ first_insert[c.path] = None
                           THEN [first_insert EXCEPT ![c.path] = Some(RowOf(c))]
                           ELSE first_insert
        /\ ignored_inserts' = ignored_inserts
                                + BoolInt(insert /\ first_insert[c.path] # None)
  /\ thr' = [thr EXCEPT ![t].pc = "committed"]
  /\ UNCHANGED <<write_lock, thread_ops, dbVars, pipeVars, refdir, loader, backend_loads,
                 loads, dir_changes, last_change, ret, prev_ret,
                 now, alert_cfg, sender, emails, alert_last, main, videoVars, retryVars, refreshVars, purgeVars>>

\* the "with" block is left
ThreadRelease(t) ==
  /\ thr[t].pc = "committed"
  /\ write_lock' = IF write_lock = Some(t) THEN None ELSE write_lock
  /\ thr' = [thr EXCEPT ![t].pc = "idle"]
  /\ UNCHANGED <<storeVars, embedding_cache, thread_ops, first_insert, ignored_inserts, threadFrame>>

\* a read method: a SELECT on the thread's connection, no lock
ThreadRead(t) ==
  /\ thr[t].pc = "idle"
  /\ thread_ops < MaxThreadOps
  /\ \E c \in ThreadCalls :
       /\ ~uses_write_lock(c.op)
       /\ thr' = [thr EXCEPT ![t] = [ThreadIdle EXCEPT !.call = c, !.result = read(c, Tables),
                                                      !.locked_by_other = (write_lock # None)]]
  /\ thread_ops' = thread_ops + 1
  /\ UNCHANGED <<storeVars, embedding_cache, write_lock, first_insert, ignored_inserts, threadFrame>>

ThreadStart ==
  /\ write_lock = None
  /\ thr = [t \in Threads |-> ThreadIdle]
  /\ thread_ops = 0
  /\ first_insert = [k \in DbKeys |-> None]
  /\ ignored_inserts = 0

\* ------------------------------------------------------ find_face_in_video
\* What process_fn does on a frame: it reports a match, reports none, or raises.
FrameOutcomes == {"match", "nomatch", "raise"}

Video(frames, video_fps, frame_count, opened) ==
  [frames |-> frames, video_fps |-> video_fps, frame_count |-> frame_count, opened |-> opened]

\* duration = total_frames / video_fps; sample_fps = 2.0 if duration < 10.0 else fps
\* (fps = 1.0); frame_interval = max(1, int(video_fps / sample_fps))
frame_interval(video_fps, total_frames) ==
  LET sample_fps == IF total_frames < 10 * video_fps THEN 2 ELSE 1
  IN Max({1, video_fps \div sample_fps})

\* the branch is never taken
found_never(outcome) == FALSE

\* if matched:
found(outcome) == outcome = "match"

NoVideoResult == [matched |-> FALSE, who |-> {}, best_score |-> None, timestamp |-> None]
VpIdle == [pc |-> "idle", frame_idx |-> 0, reads |-> 0, called |-> <<>>, cap |-> "none",
           result |-> NoVideoResult]

videoFrame == <<storeVars, dbVars, pipeVars, cacheVars, alertVars, threadVars, retryVars, refreshVars, purgeVars>>

\* find_face_in_video up to the first cap.read(): the generator opens the capture; a
\* file that does not open, or one with video_fps <= 0, ends the iteration at once
VideoOpen ==
  /\ vp.pc = "idle"
  /\ vp' = IF ~video.opened
           THEN [vp EXCEPT !.pc = "returned", !.cap = "not opened"]
           ELSE IF video.video_fps <= 0
           THEN [vp EXCEPT !.pc = "returned", !.cap = "released"]
           ELSE [vp EXCEPT !.pc = "reading", !.cap = "open"]
  /\ UNCHANGED <<video, videoFrame>>

\* one iteration of "while True": cap.read(); at the end of the video the capture is
\* released and (False, [], None, None) returned; a sampled frame is yielded and
\* process_fn called on it: a match closes the generator, which releases the
\* capture, and returns; no match, or an exception, goes on with the next frame
VideoRead ==
  /\ vp.pc = "reading"
  /\ LET interval == frame_interval(video.video_fps, video.frame_count)
         i == vp.frame_idx
     IN vp' = IF i >= Len(video.frames)
              THEN [vp EXCEPT !.pc = "returned", !.cap = "released", !.reads = @ + 1]
              ELSE IF i % interval # 0
              THEN [vp EXCEPT !.frame_idx = i + 1, !.reads = @ + 1]
              ELSE IF found(video.frames[i + 1])
              THEN [vp EXCEPT !.pc = "returned", !.cap = "released", !.reads = @ + 1,
                              !.called = Append(@, i),
                              !.result = [matched |-> TRUE, who |-> {"Alice"},
                                          best_score |-> Some(One),
                                          timestamp |-> Some(<<i, video.video_fps>>)]]
              ELSE [vp EXCEPT !.frame_idx = i + 1, !.reads = @ + 1, !.called = Append(@, i)]
  /\ UNCHANGED <<video, videoFrame>>

VideoStart ==
  /\ vp = VpIdle

\* --------------------------------------------------------------- with_retry
RetryConfig(max_retries, base_delay, max_delay, exponential_base, retryable_status_codes) ==
  [max_retries |-> max_retries, base_delay |-> base_delay, max_delay |-> max_delay,
   exponential_base |-> exponential_base, retryable_status_codes |-> retryable_status_codes]

\* What one call of the wrapped function does: it returns, or raises an HTTPError
\* (with a response of some status, or with response None: status 0), another
\* RequestException, or an exception that is not a RequestException.
Returns == [kind |-> "return", status |-> 0]
HTTPError(status) == [kind |-> "HTTPError", status |-> status]
ConnectionError == [kind |-> "RequestException", status |-> 0]
ValueError == [kind |-> "Exception", status |-> 0]
FuncOutcomes ==
  {Returns, HTTPError(0), HTTPError(400), HTTPError(404), HTTPError(429), HTTPError(500),
   ConnectionError, ValueError}
RuntimeError == [kind |-> "RuntimeError", status |-> 0]

RECURSIVE pow(_, _)
pow(b, n) == IF n = 0 THEN 1 ELSE b * pow(b, n - 1)

\* delay = min(base_delay * (exponential_base ** attempt), max_delay)
delay(config, attempt) ==
  LET d == config.base_delay * pow(config.exponential_base, attempt)
  IN IF d < config.max_delay THEN d ELSE config.max_delay

\* every HTTPError is retried
retryable_status_any(config, e) == TRUE

\* e.response is not None and e.response.status_code in config.retryable_status_codes
retryable_status(config, e) == e.status # 0 /\ e.status \in config.retryable_status_codes

RtIdle == [pc |-> "idle", attempt |-> 0, calls |-> <<>>, sleeps |-> <<>>,
           last_exception |-> None, raised |-> None]

retryFrame == <<storeVars, dbVars, pipeVars, cacheVars, alertVars, threadVars, videoVars, refreshVars, purgeVars>>

\* wrapper: last_exception = None and the for statement over range(max_retries + 1);
\* an empty range falls through to raise RuntimeError("Retry logic error")
RetryEnter ==
  /\ rt.pc = "idle"
  /\ rt' = IF retry_cfg.max_retries + 1 <= 0
           THEN [rt EXCEPT !.pc = "raised", !.raised = Some(RuntimeError)]
           ELSE [rt EXCEPT !.pc = "loop"]
  /\ UNCHANGED <<retry_cfg, retryFrame>>

\* one iteration of the for statement: the call of func and its except clauses
RetryAttempt ==
  /\ rt.pc = "loop"
  /\ \E o \in FuncOutcomes :
       LET called == [rt EXCEPT !.calls = Append(@, o)]
           again == [called EXCEPT !.last_exception = Some(o),
                                   !.sleeps = Append(@, delay(retry_cfg, rt.attempt)),
                                   !.attempt = @ + 1]
           raise == [called EXCEPT !.pc = "raised", !.raised = Some(o)]
       IN rt' = CASE o.kind = "return" -> [called EXCEPT !.pc = "returned"]
                  [] o.kind = "HTTPError" ->
                       IF retryable_status(retry_cfg, o)
                       THEN IF rt.attempt < retry_cfg.max_retries
                            THEN again
                            ELSE [raise EXCEPT !.last_exception = Some(o)]
                       ELSE raise
                  [] o.kind = "RequestException" ->
                       IF rt.attempt < retry_cfg.max_retries
                       THEN again
                       ELSE [raise EXCEPT !.last_exception = Some(o)]
                  [] OTHER -> raise
  /\ UNCHANGED <<retry_cfg, retryFrame>>

RetryStart ==
  /\ rt = RtIdle

\* ------------------------------------------------------------ known refresh
\* Times of this section count half days; a row's created_ts is the UTC time of its
\* insertion, and the machine's local time is the UTC time plus its offset.
KnownRefreshSettings(enabled, interval_days, target_score) ==
  [enabled |-> enabled, interval_days |-> interval_days, target_score |-> target_score]

\* The uploads the refresh can draw on, and the rowid each has in the files table
\* (the order of their insertion).
UploadPaths == {"up/1.jpg", "up/2.jpg", "up/3.jpg"}
rowid(path) == CASE path = "up/1.jpg" -> 1 [] path = "up/2.jpg" -> 2 [] OTHER -> 3

\* timedelta(days=d), in half days
timedelta_days(d) == d + d

\* datetime.now(): the local time of the machine, naive
datetime_now(t, utc_offset) == Naive(t + utc_offset)

\* SELECT MAX(created_ts) FROM known_refresh_history, through fromisoformat
get_last_refresh_time(history) ==
  IF history = <<>> THEN None
  ELSE Some(fromisoformat(current_timestamp(
              Max({history[i].created_ts : i \in DOMAIN history}))))

\* INSERT INTO known_refresh_history(person_name, source_file_path, target_file_path,
\* match_score, target_score): created_ts defaults to CURRENT_TIMESTAMP
add_refresh_record(history, person_name, source_file_path, match_score, t) ==
  Append(history, [person_name |-> person_name, source_file_path |-> source_file_path,
                   match_score |-> match_score, created_ts |-> t])

\* KnownRefreshManager.should_refresh at UTC time t on a machine at utc_offset
should_refresh(config, history, t, utc_offset) ==
  LET last_refresh == get_last_refresh_time(history)
      time_since_last == datetime_sub(datetime_now(t, utc_offset), last_refresh[1])
  IN IF ~config.enabled THEN FALSE
     ELSE IF last_refresh = None THEN TRUE
     ELSE time_since_last.minutes >= timedelta_days(config.interval_days)

\* the difference without ABS
score_delta_signed(match_score, target_score) == match_score - target_score

\* ABS(f.match_score - ?)
score_delta(match_score, target_score) ==
  IF match_score >= target_score THEN match_score - target_score
  ELSE target_score - match_score

\* the query without its LEFT JOIN: uploads already used are not left out
get_refresh_candidates_reuse(f, history, person_name, target_score) ==
  LET rows == {p \in DOMAIN f :
                 /\ f[p].matched = 1 /\ f[p].uploaded = 1
                 /\ f[p].matched_person = Some(person_name)
                 /\ f[p].match_score # None}
      delta(p) == score_delta(f[p].match_score[1], target_score)
      before(p, q) == delta(p) < delta(q) \/ (delta(p) = delta(q) /\ rowid(p) < rowid(q))
      order == CHOOSE o \in [1..Cardinality(rows) -> rows] :
                 \A i, j \in 1..Cardinality(rows) : i < j => before(o[i], o[j])
  IN [i \in 1..Cardinality(rows) |->
        [path |-> order[i], match_score |-> f[order[i]].match_score[1],
         sha256 |-> f[order[i]].sha256, score_delta |-> delta(order[i])]]

\* Database.get_refresh_candidates(person_name, target_score): the rows of files with
\* matched=1, uploaded=1, this matched_person and a match_score, that join no row of
\* known_refresh_history on path = source_file_path, ORDER BY score_delta ASC; the
\* sorter keeps rows of equal score_delta in the order of the scan, by rowid
get_refresh_candidates(f, history, person_name, target_score) ==
  LET rows == {p \in DOMAIN f :
                 /\ f[p].matched = 1 /\ f[p].uploaded = 1
                 /\ f[p].matched_person = Some(person_name)
                 /\ f[p].match_score # None
                 /\ \A i \in DOMAIN history : history[i].source_file_path # p}
      delta(p) == score_delta(f[p].match_score[1], target_score)
      before(p, q) == delta(p) < delta(q) \/ (delta(p) = delta(q) /\ rowid(p) < rowid(q))
      order == CHOOSE o \in [1..Cardinality(rows) -> rows] :
                 \A i, j \in 1..Cardinality(rows) : i < j => before(o[i], o[j])
  IN [i \in 1..Cardinality(rows) |->
        [path |-> order[i], match_score |-> f[order[i]].match_score[1],
         sha256 |-> f[order[i]].sha256, score_delta |-> delta(order[i])]]

RefreshCandidate(person_name, source_path, match_score, delta) ==
  [person_name |-> person_name, source_path |-> source_path, match_score |-> match_score,
   score_delta |-> delta]

\* KnownRefreshManager.find_candidates(person_name)
find_candidates(config, f, history, person_name) ==
  LET candidates == get_refresh_candidates(f, history, person_name, config.target_score)
  IN [i \in DOMAIN candidates |->
        RefreshCandidate(person_name, candidates[i].path, candidates[i].match_score,
                         candidates[i].score_delta)]

\* What happens to the best candidate of one identity: a face is found, cropped
\* and saved; no face is found or the crop raises; the save raises.
CropOutcomes == {"saved", "crop_failed", "save_failed"}

\* KnownRefreshManager.crop_face: None unless the backend is insightface, when no
\* face is detected and when anything raises
crop_face(backend_name, outcome) ==
  IF backend_name # "insightface" THEN None
  ELSE IF outcome = "crop_failed" THEN None
  ELSE Some("cropped")

\* a failed crop or save is taken for a saved image
refresh_person_unchecked(st, config, f, backend_name, person_name, outcome, t) ==
  LET candidates == find_candidates(config, f, st.history, person_name)
  IN IF candidates = <<>> THEN st
     ELSE LET best_candidate == candidates[1]
              target == <<person_name, t, best_candidate.match_score>>
          IN [history |-> add_refresh_record(st.history, person_name,
                                             best_candidate.source_path,
                                             best_candidate.match_score, t),
              saved |-> st.saved \cup {target},
              results |-> Append(st.results,
                                 [person_name |-> person_name,
                                  source_file_path |-> best_candidate.source_path,
                                  target_file_path |-> target,
                                  match_score |-> best_candidate.match_score,
                                  target_score |-> config.target_score])]

\* the body of "for person_dir in self.known_people_dir.iterdir()" for one identity:
\* the best candidate, crop_face, the save under the identity's directory as
\* refresh_<timestamp>_<score>.jpg, add_refresh_record and the RefreshResult
refresh_person(st, config, f, backend_name, person_name, outcome, t) ==
  LET candidates == find_candidates(config, f, st.history, person_name)
  IN IF candidates = <<>> THEN st
     ELSE LET best_candidate == candidates[1]
              cropped_img == crop_face(backend_name, outcome)
              target == <<person_name, t, best_candidate.match_score>>
          IN IF cropped_img = None THEN st
             ELSE IF outcome = "save_failed" THEN st
             ELSE [history |-> add_refresh_record(st.history, person_name,
                                                  best_candidate.source_path,
                                                  best_candidate.match_score, t),
                   saved |-> st.saved \cup {target},
                   results |-> Append(st.results,
                                      [person_name |-> person_name,
                                       source_file_path |-> best_candidate.source_path,
                                       target_file_path |-> target,
                                       match_score |-> best_candidate.match_score,
                                       target_score |-> config.target_score])]

RECURSIVE refresh_people(_, _, _, _, _, _, _)
refresh_people(st, config, f, backend_name, dirs, outcomes, t) ==
  IF dirs = <<>> THEN st
  ELSE refresh_people(refresh_person(st, config, f, backend_name, Head(dirs),
                                     outcomes[Head(dirs)], t),
                      config, f, backend_name, Tail(dirs), outcomes, t)

\* KnownRefreshManager.run_refresh(): [] when not due or without the directory
run_refresh(config, f, history, saved, backend_name, dirs, exists, outcomes, t, utc_offset) ==
  LET st == [history |-> history, saved |-> saved, results |-> <<>>]
  IN IF ~should_refresh(config, history, t, utc_offset) THEN st
     ELSE IF ~exists THEN st
     ELSE refresh_people(st, config, f, backend_name, dirs, outcomes, t)

RefreshTicks == {1, 13}
WeekTicks == {14}
UtcOffsets == {-1, 0, 1}
DirOrders == {KnownOrder, <<"Bob", "Alice">>}
NoRefreshCall == [op |-> "none", result |-> FALSE, results |-> <<>>, at |-> 0,
                  history_before |-> <<>>, saved_before |-> {}, person |-> "",
                  dirs |-> <<>>, exists |-> FALSE, candidates |-> <<>>,
                  outcomes |-> [p \in KnownPeople |-> "saved"]]
RfStart(utc_offset, backend_name, env, ticks) ==
  [clock |-> 0, utc_offset |-> utc_offset, backend_name |-> backend_name, saved |-> {},
   env |-> env, ticks |-> ticks, call |-> NoRefreshCall]

\* What the environment of a run_refresh call can be: the order of the identity
\* directories, whether known_people_dir exists, how each crop and save goes.  In
\* the environment "saves" the directory exists and every crop and save succeeds.
RunEnvs(env) ==
  IF env = "saves"
  THEN {[dirs |-> KnownOrder, exists |-> TRUE, outcomes |-> [p \in KnownPeople |-> "saved"]]}
  ELSE {[dirs |-> d, exists |-> TRUE, outcomes |-> o] :
          d \in DirOrders, o \in [KnownPeople -> CropOutcomes]}
       \cup {[dirs |-> <<>>, exists |-> FALSE, outcomes |-> [p \in KnownPeople |-> "saved"]]}

refreshFrame == <<storeVars, dbVars, pipeVars, cacheVars, alertVars, threadVars, videoVars,
                  retryVars, purgeVars>>

\* time passes
RefreshTick ==
  /\ \E d \in rf.ticks :
       /\ rf.clock + d <= MaxRefreshClock
       /\ rf' = [rf EXCEPT !.clock = @ + d]
  /\ UNCHANGED <<refresh_cfg, known_refresh_history, refreshFrame>>

\* a call of should_refresh()
ShouldRefresh ==
  /\ rf' = [rf EXCEPT !.call =
              [NoRefreshCall EXCEPT
                 !.op = "should_refresh",
                 !.result = should_refresh(refresh_cfg, known_refresh_history, rf.clock,
                                           rf.utc_offset),
                 !.at = rf.clock, !.history_before = known_refresh_history,
                 !.saved_before = rf.saved]]
  /\ UNCHANGED <<refresh_cfg, known_refresh_history, refreshFrame>>

\* a call of find_candidates(person_name)
FindCandidates ==
  /\ \E person \in KnownPeople :
       rf' = [rf EXCEPT !.call =
                [NoRefreshCall EXCEPT
                   !.op = "find_candidates", !.person = person,
                   !.candidates = find_candidates(refresh_cfg, files, known_refresh_history,
                                                  person),
                   !.at = rf.clock, !.history_before = known_refresh_history,
                   !.saved_before = rf.saved]]
  /\ UNCHANGED <<refresh_cfg, known_refresh_history, refreshFrame>>

\* a call of run_refresh(): the identity directories come in the order iterdir
\* gives them, and each identity's crop and save go as the environment has it
RunRefresh ==
  /\ Len(known_refresh_history) < MaxRefreshRecords
  /\ \E e \in RunEnvs(rf.env) :
       LET dirs == e.dirs
           exists == e.exists
           outcomes == e.outcomes
           due == should_refresh(refresh_cfg, known_refresh_history, rf.clock, rf.utc_offset)
           st == run_refresh(refresh_cfg, files, known_refresh_history, rf.saved,
                             rf.backend_name, dirs, exists, outcomes, rf.clock,
                             rf.utc_offset)
       IN /\ known_refresh_history' = st.history
          /\ rf' = [rf EXCEPT
                      !.saved = st.saved,
                      !.call = [NoRefreshCall EXCEPT
                                  !.op = "run_refresh", !.result = due,
                                  !.results = st.results, !.at = rf.clock,
                                  !.history_before = known_refresh_history,
                                  !.saved_before = rf.saved,
                                  !.dirs = dirs, !.exists = exists,
                                  !.outcomes = outcomes]]
  /\ UNCHANGED <<refresh_cfg, refreshFrame>>

RefreshStart ==
  /\ rf = RfStart(0, "insightface", "saves", RefreshTicks)
  /\ known_refresh_history = <<>>
  /\ refresh_cfg = KnownRefreshSettings(FALSE, 60, 5)

\* ------------------------------------------------------ cleanup_old_events
\* Times of this section count half days, as in the refresh section.  A DATETIME
\* column holds a text, and SQLite compares texts byte by byte: the date, then the
\* separator between date and time, then the time of day.
isoformat(dt) == <<"YYYY-MM-DDTHH:MM:SS.ffffff", dt.t>>

\* the byte that follows the date: ord(" ") in CURRENT_TIMESTAMP's text, ord("T") in
\* isoformat's
separator(text) == IF text[1] = "YYYY-MM-DD HH:MM:SS" THEN 32 ELSE 84

\* the two texts compared as the times they denote
text_lt_by_time(a, b) == a[2] < b[2]

\* a < b on two such texts
text_lt(a, b) ==
  LET date(x) == x[2] \div 2
      time(x) == x[2] % 2
  IN \/ date(a) < date(b)
     \/ /\ date(a) = date(b)
        /\ \/ separator(a) < separator(b)
           \/ separator(a) = separator(b) /\ time(a) < time(b)

\* the row just inserted, with the created_ts column it got by default
created_now(evs, t) ==
  [evs EXCEPT ![Len(evs)] = @ @@ [created_ts |-> current_timestamp(t)]]

\* Database.cleanup_old_events(retention_days): cutoff_str is the local time less
\* retention_days, through isoformat; DELETE ... WHERE alerted=1 AND created_ts < ?
\* on both event tables; returns the two rowcounts
cleanup_old_events(bl, err, retention_days, t, utc_offset) ==
  LET cutoff_ts == [datetime_now(t, utc_offset) EXCEPT !.t = @ - timedelta_days(retention_days)]
      cutoff_str == isoformat(cutoff_ts)
      kept(r) == ~(r.alerted = 1 /\ text_lt(r.created_ts, cutoff_str))
      bl2 == SelectSeq(bl, kept)
      err2 == SelectSeq(err, kept)
  IN [bl |-> bl2, err |-> err2, returned |-> <<Len(bl) - Len(bl2), Len(err) - Len(err2)>>]

\* the instants at which something happens
PurgeInstants == {0, 1, 2, 14, 15, 16}
NoPurgeCall == [op |-> "none", at |-> 0, retention_days |-> 0, returned |-> <<0, 0>>,
                bl_before |-> <<>>, err_before |-> <<>>]
PgStart(utc_offset) == [clock |-> 0, utc_offset |-> utc_offset, call |-> NoPurgeCall]

purgeFrame == <<files, dbVars, pipeVars, cacheVars, alertVars, threadVars, videoVars,
                retryVars, refreshVars>>

\* time passes
PurgeTick ==
  /\ \E t \in PurgeInstants :
       /\ pg.clock < t /\ t <= MaxPurgeClock
       /\ pg' = [pg EXCEPT !.clock = t, !.call = NoPurgeCall]
  /\ UNCHANGED <<borderline_events, error_events, purgeFrame>>

\* add_borderline_event / add_error_event at the current time
PurgeRecord ==
  /\ Len(borderline_events) + Len(error_events) < MaxEvents
  /\ \/ /\ borderline_events' =
             created_now(add_borderline_event(borderline_events, "D1/L1.jpg", 4, 2,
                                              Some("Alice")), pg.clock)
        /\ UNCHANGED error_events
     \/ /\ error_events' =
             created_now(add_error_event(error_events, "upload", "D1/L1.jpg"), pg.clock)
        /\ UNCHANGED borderline_events
  /\ pg' = [pg EXCEPT !.call = NoPurgeCall]
  /\ UNCHANGED purgeFrame

\* mark_events_alerted on the pending events, as after a notification was sent
PurgeMark ==
  /\ get_pending_alerts(borderline_events) \cup get_pending_alerts(error_events) # {}
  /\ borderline_events' =
       mark_events_alerted(borderline_events, get_pending_alerts(borderline_events))
  /\ error_events' = mark_events_alerted(error_events, get_pending_alerts(error_events))
  /\ pg' = [pg EXCEPT !.call = NoPurgeCall]
  /\ UNCHANGED purgeFrame

\* a call of cleanup_old_events(event_retention_days), as main makes at startup;
\* the setting is at least 7
Cleanup ==
  /\ \E retention_days \in {7} :
       LET r == cleanup_old_events(borderline_events, error_events, retention_days,
                                   pg.clock, pg.utc_offset)
       IN /\ borderline_events' = r.bl
          /\ error_events' = r.err
          /\ pg' = [pg EXCEPT !.call =
                      [op |-> "cleanup_old_events", at |-> pg.clock,
                       retention_days |-> retention_days, returned |-> r.returned,
                       bl_before |-> borderline_events, err_before |-> error_events]]
  /\ UNCHANGED purgeFrame

PurgeStart ==
  /\ pg = PgStart(0)

\* the parts of the program a specification does not run stay as constructed
RestStart ==
  /\ AlertStart
  /\ ThreadStart
  /\ VideoStart
  /\ video = Video(<<>>, 0, 0, FALSE)
  /\ RetryStart
  /\ retry_cfg = RetryConfig(3, 1, 60, 2, {429, 500, 502, 503, 504})
  /\ RefreshStart
  /\ PurgeStart
  /\ alert_cfg = AlertSettings(60, <<"a@x">>, TRUE)

\* ----------------------------------------------------------- configurations
Config(tolerance, borderline_offset, alerting, backend, return_scores, del_src, del_unmatched) ==
  [tolerance |-> tolerance, borderline_offset |-> borderline_offset, alerting |-> alerting,
   backend |-> backend, return_scores |-> return_scores,
   delete_source_after_upload |-> del_src,
   delete_unmatched_after_processing |-> del_unmatched]

\* tolerance 2 and borderline_offset 2, in units of 1/One
Configs ==
  {Config(2, 2, TRUE, "face_recognition", TRUE, FALSE, FALSE),
   Config(2, 2, FALSE, "face_recognition", TRUE, FALSE, FALSE),
   Config(2, 2, TRUE, "face_recognition", TRUE, TRUE, TRUE)}

Budget(n_scans, n_watch) == [scans |-> n_scans, watch_events |-> n_watch]

PipeStart ==
  /\ recog_calls = [k \in DedupKeys |-> 0]
  /\ on_match_calls = [k \in DedupKeys |-> 0]
  /\ scan = ScanIdle
  /\ scans = 0
  /\ watch_events = 0
  /\ last = NoLast

vars == <<storeVars, dbVars, pipeVars, cacheVars, restVars>>

StoreInit ==
  /\ files = <<>>
  /\ borderline_events = <<>>
  /\ error_events = <<>>

DbInit ==
  /\ db_ops = 0
  /\ db_last = [op |-> "none", path |-> "", uploaded |-> 0, before |-> <<>>]
  /\ db_flips = [k \in DbKeys |-> 0]
  /\ fs = FsStart

InitDB ==
  /\ StoreInit /\ DbInit /\ PipeStart /\ CacheStart /\ RestStart
  /\ cfg = Config(2, 2, TRUE, "face_recognition", TRUE, FALSE, FALSE)
  /\ disk = LocalImages \cup LocalOthers
  /\ probes = "none" /\ bucket = {} /\ budget = Budget(0, 0)
NextDB == DbAddFile \/ DbAddFileWithScore \/ DbMarkUploaded
SpecDB == InitDB /\ [][NextDB]_vars

\* C3: in the SQLite store, under any sequence of add_file, add_file_with_score and
\* mark_uploaded calls, a row is never removed, uploaded never goes from 1 back to 0,
\* it goes from 0 to 1 at most once per key, and a mark_uploaded on a row that is
\* already uploaded leaves the whole table as it was.
C3_UploadedMonotone ==
  /\ \A k \in DOMAIN db_last.before :
        /\ k \in DOMAIN files
        /\ db_last.before[k].uploaded = 1 => files[k].uploaded = 1
  /\ \A k \in DbKeys : db_flips[k] <= 1
  /\ (/\ db_last.op = "mark_uploaded"
      /\ db_last.path \in DOMAIN db_last.before
      /\ db_last.before[db_last.path].uploaded = 1) => files = db_last.before

\* an insert with uploaded=0 arrives for a key whose row was flipped to uploaded=1 before
C3_Witness ==
  /\ db_last.op \in {"add_file", "add_file_with_score"}
  /\ db_last.uploaded = 0
  /\ db_last.path \in DOMAIN db_last.before
  /\ db_last.before[db_last.path].uploaded = 1
  /\ db_flips[db_last.path] = 1

\* the pipeline over a local directory and a bucket, scanned and watched repeatedly
Init ==
  /\ StoreInit /\ DbInit /\ PipeStart /\ CacheStart /\ RestStart
  /\ cfg \in Configs
  /\ probes = "scan"
  /\ disk = LocalImages \cup LocalOthers
  /\ bucket = GcsImages
  /\ budget = Budget(MaxScans, MaxWatchEvents)
Next ==
  \/ ScanStart \/ ScanEnterDir \/ ScanLocalItem \/ ScanGcsItem
  \/ ScanFinish \/ WatchEvent
Spec == Init /\ [][Next]_vars

\* a step in which scan_and_process_once runs its loop body for the entry k
ScanStepOn(k) ==
  /\ scan.pc = "items"
  /\ scan.todo # <<>>
  /\ Head(scan.todo) = k
  /\ scan' # scan

\* a step in which the watcher handles an on_created event for k
WatchStepOn(k) ==
  /\ watch_events' = watch_events + 1
  /\ last'.mode = "watch"
  /\ last'.key = k

\* C1: when the files table already holds a row for dedup_key k, a pipeline run on k
\* (a scan iteration or a watch event) invokes neither process_fn nor on_match and
\* writes nothing: the store, the disk and the call counts are unchanged, so the row
\* of k (the table is keyed by path, UNIQUE) stays the one row there is for k.
C1_IdempotentDedup ==
  [][\A k \in DedupKeys :
       (k \in DOMAIN files /\ (ScanStepOn(k) \/ WatchStepOn(k)))
         => /\ UNCHANGED <<storeVars, disk, recog_calls, on_match_calls>>
            /\ k \in DOMAIN files'
            /\ last'.was_seen]_vars

\* a second scan has skipped the gs:// item that an earlier scan processed and matched
C1_Witness ==
  /\ last.was_seen
  /\ last.mode = "scan"
  /\ last.key \in GcsImages
  /\ last.key \in DOMAIN files
  /\ files[last.key].matched = 1
  /\ recog_calls[last.key] = 1
  /\ on_match_calls[last.key] = 1
  /\ scans = 2

\* C2: every new item whose image decoded and was recognized has its row in the files
\* table after the run, and when on_match raised the row says matched=1, uploaded=0.
C2_PersistRegardless ==
  (/\ last.mode \in {"scan", "watch"}
   /\ ~last.was_seen
   /\ last.out.stage \in {"borderline", "done"})
    => /\ last.key \in DOMAIN files
       /\ last.out.onm = "raised" =>
            files[last.key].matched = 1 /\ files[last.key].uploaded = 0

\* C10: in a scan, the iteration whose on_match raises adds exactly one to errors, one
\* to new_files, one to processed and one to matched, the loop goes on with the next
\* entry, and when the scan is done every entry the listings returned was visited.
C10_UploadFailureDoesNotAbort ==
  [][/\ \A k \in DedupKeys :
          (ScanStepOn(k) /\ k \notin DOMAIN files /\ last'.out.onm = "raised")
            => /\ scan'.errors = scan.errors + 1
               /\ scan'.new_files = scan.new_files + 1
               /\ scan'.processed = scan.processed + 1
               /\ scan'.matched = scan.matched + 1
               /\ scan'.pc \in {"items", "dir"}
               /\ scan'.todo = Tail(scan.todo)
     /\ scan'.pc = "done" => scan'.listed \subseteq scan'.visited]_vars

\* a finished scan in which the upload of the local item failed and the gs:// item,
\* listed after it, was still processed
C10_Witness ==
  /\ scan.pc = "done"
  /\ scans = 1
  /\ on_match_calls["D1/L1.jpg"] = 1
  /\ "D1/L1.jpg" \in DOMAIN files
  /\ files["D1/L1.jpg"].uploaded = 0
  /\ files["D1/L1.jpg"].matched = 1
  /\ "gs://b/G1.jpg" \in scan.visited
  /\ "gs://b/G1.jpg" \in DOMAIN files
  /\ scan.errors = 1
  /\ scan.processed = 2

\* ------------------------------------------------ one item, every probe image
\* One new item goes through the pipeline once: the local image in a scan, the local
\* image in a watch event, or the bucket's image in a scan.
ItemConfigs ==
  {Config(t, off, al, "face_recognition", TRUE, FALSE, FALSE) :
     t \in {2, 3}, off \in {0, 2}, al \in BOOLEAN}
    \cup {Config(2, 2, TRUE, "face_recognition", FALSE, FALSE, FALSE),
          Config(2, 2, TRUE, "insightface", TRUE, FALSE, FALSE)}

ItemWorlds ==
  {[disk |-> LocalImages \cup LocalOthers, bucket |-> {}, budget |-> Budget(1, 0)],
   [disk |-> LocalImages \cup LocalOthers, bucket |-> {}, budget |-> Budget(0, 1)],
   [disk |-> LocalOthers, bucket |-> GcsImages, budget |-> Budget(1, 0)]}

InitItem ==
  /\ StoreInit /\ DbInit /\ PipeStart /\ CacheStart /\ RestStart
  /\ cfg \in ItemConfigs
  /\ probes = "item"
  /\ \E wd \in ItemWorlds : disk = wd.disk /\ bucket = wd.bucket /\ budget = wd.budget
SpecItem == InitItem /\ [][Next]_vars

\* the last run was on a new item and process_fn returned a result for it
Recognized ==
  /\ last.mode \in {"scan", "watch"}
  /\ ~last.was_seen
  /\ last.out.stage \in {"borderline", "done"}

MaxScore(scores) == Max({scores[p] : p \in DOMAIN scores})

\* threshold - borderline_offset <= s < threshold with threshold = 1 - tolerance
InBand(s) ==
  /\ fl(fl(One - cfg.tolerance) - cfg.borderline_offset) <= s
  /\ s < fl(One - cfg.tolerance)

BorderlineRow(k, s, person) ==
  [file_path |-> k, match_score |-> s, tolerance |-> cfg.tolerance,
   matched_person |-> Some(person), alerted |-> 0]

\* C7: for a new item, record_borderline is invoked if and only if alerting is enabled,
\* the gateway returned, reported no match, scores is non-empty and its maximum s is
\* in [threshold - borderline_offset, threshold); the event stored is then the one event
\* of the item and carries the dedup key, s, the tolerance and an identity whose score
\* is s; in every other case, empty scores included, no event is stored.
C7_BorderlineBand ==
  (last.mode \in {"scan", "watch"} /\ ~last.was_seen) =>
    LET o == last.out
        due == /\ cfg.alerting
               /\ Recognized
               /\ ~o.is_matched
               /\ DOMAIN o.scores # {}
               /\ InBand(MaxScore(o.scores))
    IN /\ o.bl_called <=> due
       /\ (due /\ o.stage = "done") =>
            \E person \in DOMAIN o.scores :
              /\ o.scores[person] = MaxScore(o.scores)
              /\ borderline_events = <<BorderlineRow(last.key, MaxScore(o.scores), person)>>
       /\ ~(due /\ o.stage = "done") => borderline_events = <<>>

\* an unmatched gs:// item whose best score, Bob's, is the lowest score of a non-empty
\* band got its event
C7_Witness ==
  /\ Recognized
  /\ cfg.alerting
  /\ last.out.stage = "done"
  /\ last.out.bl_called
  /\ Len(borderline_events) = 1
  /\ borderline_events[1].file_path \in GcsImages
  /\ cfg.borderline_offset > 0
  /\ borderline_events[1].match_score = fl(fl(One - cfg.tolerance) - cfg.borderline_offset)
  /\ borderline_events[1].matched_person = Some("Bob")

\* C9: when the gateway reports a match together with scores, the row of the item has
\* matched=1, match_score equal to the maximum score and matched_person equal to an
\* identity that carries the maximum score and is one of the matched identities, and
\* on_match was invoked exactly once; for an unmatched item on_match was not invoked
\* and matched_person is null.
C9_MatchedOutcome ==
  (Recognized /\ last.out.stage = "done") =>
    LET o == last.out
        k == last.key
    IN /\ k \in DOMAIN files
       /\ (o.is_matched /\ DOMAIN o.scores # {}) =>
            /\ files[k].matched = 1
            /\ files[k].match_score = Some(MaxScore(o.scores))
            /\ files[k].matched_person # None
            /\ files[k].matched_person[1] \in DOMAIN o.scores
            /\ o.scores[files[k].matched_person[1]] = MaxScore(o.scores)
            /\ files[k].matched_person[1] \in o.who
            /\ on_match_calls[k] = 1
       /\ ~o.is_matched =>
            /\ files[k].matched = 0
            /\ files[k].matched_person = None
            /\ on_match_calls[k] = 0

\* ------------------------------------------- two items, the same configuration
\* One scan classifies the local image and the bucket's image.
ClassifyConfigs ==
  {Config(t, off, TRUE, "face_recognition", TRUE, FALSE, FALSE) : t \in {2, 3}, off \in {0, 2}}

InitClassify ==
  /\ StoreInit /\ DbInit /\ PipeStart /\ CacheStart /\ RestStart
  /\ cfg \in ClassifyConfigs
  /\ probes = "classify"
  /\ disk = LocalImages \cup LocalOthers
  /\ bucket = GcsImages
  /\ budget = Budget(1, 0)
NextClassify ==
  \/ ScanStart \/ ScanEnterDir \/ ScanLocalItem \/ ScanGcsItem \/ ScanFinish
SpecClassify == InitClassify /\ [][NextClassify]_vars

\* the outcome the ledger shows for the item k: 3 Matched, 2 Borderline, 1 Rejected
Rank(k) ==
  IF files[k].matched = 1 THEN 3
  ELSE IF \E i \in DOMAIN borderline_events : borderline_events[i].file_path = k THEN 2
  ELSE 1

\* C8: for a fixed tolerance and borderline_offset, of two classified items the one with
\* the higher best score never has the lower outcome (Rejected < Borderline < Matched),
\* every score in [threshold - borderline_offset, threshold) is Borderline, and a score
\* equal to threshold is Matched.
C8_ClassifierMonotone ==
  \A a, b \in DOMAIN files :
    (files[a].match_score # None /\ files[b].match_score # None) =>
      LET sa == files[a].match_score[1]
          sb == files[b].match_score[1]
      IN /\ sa <= sb => Rank(a) <= Rank(b)
         /\ InBand(sa) => Rank(a) = 2
         /\ sa = fl(One - cfg.tolerance) => Rank(a) = 3

\* ----------------------------------------- load_known_faces with a database
InitCache ==
  /\ StoreInit /\ DbInit /\ PipeStart /\ RestStart
  /\ cfg = Config(2, 2, TRUE, "face_recognition", TRUE, FALSE, FALSE)
  /\ disk = LocalImages \cup LocalOthers
  /\ probes = "none" /\ bucket = {} /\ budget = Budget(0, 0)
  /\ CacheStart
NextCache == LoadLookup \/ LoadCompute \/ LoadSave \/ DirChange
SpecCache == InitCache /\ [][NextCache]_vars

\* C4: when two consecutive load_known_faces calls have the same parameter set (not
\* per-file) and known_root did not change from the start of the first to the return
\* of the second, the second is a cache hit, returns the encodings and people the
\* first returned, and the backend's load_known_faces was not invoked during it.
C4_CacheHit ==
  (/\ ret.kind # "none" /\ prev_ret.kind # "none"
   /\ ret.params = prev_ret.params
   /\ ~ret.params.return_per_file
   /\ prev_ret.changes_at_start = ret.changes_at_ret)
    => /\ ret.kind = "hit"
       /\ ret.value = prev_ret.value
       /\ ret.backend_at_ret = ret.backend_at_start

\* a miss that computed and saved, then a hit for the same parameters that returned the
\* same value with the backend still invoked once in all
C4_Witness ==
  /\ prev_ret.kind = "miss"
  /\ ret.kind = "hit"
  /\ ret.params = prev_ret.params
  /\ prev_ret.changes_at_start = ret.changes_at_ret
  /\ ret.value = prev_ret.value
  /\ ret.backend_at_ret = 1

\* C5: the encodings a cache hit returns were computed from a state of known_root whose
\* files_hash equals the files_hash of known_root at the time of the lookup.
C5_NoStaleness ==
  ret.kind = "hit" =>
    compute_files_hash(ret.value.encodings.from) = compute_files_hash(ret.dir_at_lookup)

\* C6: when the row of the cache_key being loaded was valid for known_root and then one
\* reference image was touched, the next load for that parameter set is a miss that
\* invokes the backend and recomputes from the touched directory, and every row stored
\* under another cache_key is left as it was.
C6_TouchInvalidates ==
  (/\ ret.kind \in {"hit", "miss"}
   /\ ~ret.params.return_per_file
   /\ last_change.kind = "touch"
   /\ last_change.n = ret.changes_at_start
   /\ make_cache_key(ret.params) \in DOMAIN ret.cache_before
   /\ ret.cache_before[make_cache_key(ret.params)].files_hash
        = compute_files_hash(last_change.before))
    => /\ ret.kind = "miss"
       /\ ret.backend_at_ret = ret.backend_at_start + 1
       /\ ret.value.encodings.from = last_change.after
       /\ DOMAIN embedding_cache = DOMAIN ret.cache_before
       /\ \A k \in DOMAIN embedding_cache \ {make_cache_key(ret.params)} :
            embedding_cache[k] = ret.cache_before[k]

\* ------------------------------------------------- the alert manager on its own
\* Workers record events, time passes, and should_send_alert and send_pending_alerts
\* are called in any order.
AlertConfigs ==
  {AlertSettings(60, <<"a@x">>, TRUE),
   AlertSettings(60, <<"a@x", "b@x">>, TRUE),
   AlertSettings(60, <<"a@x">>, FALSE)}

InitAlert ==
  /\ StoreInit /\ DbInit /\ PipeStart /\ CacheStart /\ AlertStart /\ ThreadStart /\ VideoStart
  /\ video = Video(<<>>, 0, 0, FALSE)
  /\ RetryStart
  /\ retry_cfg = RetryConfig(3, 1, 60, 2, {429, 500, 502, 503, 504})
  /\ RefreshStart
  /\ PurgeStart
  /\ alert_cfg \in AlertConfigs
  /\ cfg = Config(2, 2, TRUE, "face_recognition", TRUE, FALSE, FALSE)
  /\ disk = LocalImages \cup LocalOthers
  /\ probes = "none" /\ bucket = {} /\ budget = Budget(0, 0)
NextAlert == RecordEvent \/ Tick \/ ShouldSend \/ SendGather \/ SendMark
SpecAlert == InitAlert /\ [][NextAlert]_vars

\* C12: should_send_alert returns true exactly when an un-alerted event exists and
\* either no batch was ever recorded or at least batch_interval_minutes have passed
\* since the most recent batch (so, with an interval of 60 and a pending event, false
\* 10 minutes after a batch and true 61 minutes after it); in particular it returns.
C12_AlertThrottle ==
  alert_last.op = "should_send_alert" =>
    /\ ~alert_last.raised
    /\ alert_last.result =
         (/\ alert_last.pending > 0
          /\ \/ alert_last.last_batch = None
             \/ alert_last.at - alert_last.last_batch[1] >= alert_cfg.batch_interval_minutes)

\* a send_pending_alerts step that returns without a delivered email although events
\* were pending: no sender configured, or the transport failed
SendFailed ==
  /\ SendGather
  /\ sender' = sender
  /\ Gathered(borderline_events, error_events).total_events > 0

\* C13: a send_pending_alerts call whose email was delivered leaves every event it
\* gathered with alerted=1, appends exactly one batch per recipient, each with
\* event_count equal to the number gathered, and returns that number; a call that
\* finds no pending event returns 0, sends nothing and changes nothing, and no call
\* gathers an event that an earlier delivered call gathered.
C13_SuccessfulSend ==
  [][/\ SendMark =>
          LET g == sender.gathered
              n == Len(alert_cfg.recipients)
          IN /\ \A i \in g.borderline : borderline_events'[i].alerted = 1
             /\ \A i \in g.errors : error_events'[i].alerted = 1
             /\ Len(alert_batches') = Len(alert_batches) + n
             /\ \A k \in 1..n :
                  /\ alert_batches'[Len(alert_batches) + k].recipient = alert_cfg.recipients[k]
                  /\ alert_batches'[Len(alert_batches) + k].event_count = g.total_events
             /\ SubSeq(alert_batches', 1, Len(alert_batches)) = alert_batches
             /\ alert_last'.result = g.total_events
             /\ g.total_events = Cardinality(g.borderline) + Cardinality(g.errors)
             /\ g.total_events > 0
     /\ (SendGather /\ Gathered(borderline_events, error_events).total_events = 0) =>
          /\ alert_last'.op = "send_pending_alerts"
          /\ alert_last'.result = 0
          /\ UNCHANGED <<storeVars, alert_batches, emails, sender>>
     /\ (SendGather /\ alert_last.op = "send_pending_alerts" /\ alert_last.result > 0) =>
          LET g == Gathered(borderline_events, error_events)
          IN /\ g.borderline \cap alert_last.gathered.borderline = {}
             /\ g.errors \cap alert_last.gathered.errors = {}
    ]_vars

\* a combined alert went to two recipients, and the call that followed found nothing
C13_Witness ==
  /\ alert_last.op = "send_pending_alerts"
  /\ alert_last.gathered.total_events = 0
  /\ alert_last.result = 0
  /\ emails = 1
  /\ Len(alert_batches) = 2
  /\ alert_batches[1].alert_type = "combined"
  /\ alert_batches[2].event_count = 2
  /\ \A i \in DOMAIN borderline_events : borderline_events[i].alerted = 1
  /\ \A i \in DOMAIN error_events : error_events[i].alerted = 1

\* C14: when no email sender is configured or the transport reports failure,
\* send_pending_alerts returns 0 and changes neither an event nor the batches, so the
\* events stay pending and the last-alert time is what it was; events are marked only
\* in a call whose sender is configured and whose transport succeeded.
C14_FailedSendChangesNothing ==
  [][/\ SendFailed =>
          /\ alert_last'.op = "send_pending_alerts"
          /\ alert_last'.result = 0
          /\ UNCHANGED <<storeVars, alert_batches, emails>>
          /\ get_pending_alerts(borderline_events') = get_pending_alerts(borderline_events)
          /\ get_pending_alerts(error_events') = get_pending_alerts(error_events)
          /\ get_last_alert_time(alert_batches') = get_last_alert_time(alert_batches)
     /\ (SendGather /\ sender' # sender) => (alert_cfg.smtp /\ sender'.transport_ok)
     /\ SendMark => (alert_cfg.smtp /\ sender.transport_ok)
    ]_vars

\* the transport failed while an event was pending and a batch had been recorded before
C14_Witness ==
  /\ alert_last.op = "send_pending_alerts"
  /\ alert_cfg.smtp
  /\ ~alert_last.transport_ok
  /\ alert_last.gathered.total_events > 0
  /\ alert_last.result = 0
  /\ alert_batches # <<>>

\* ------------------------------------------------------------ batch-mode main
\* Repeated batch runs (cron): each scans once, checks the alerts and exits.
InitMain ==
  /\ StoreInit /\ DbInit /\ PipeStart /\ CacheStart /\ RestStart
  /\ cfg \in Configs
  /\ probes = "scan"
  /\ disk = LocalImages \cup LocalOthers
  /\ bucket = GcsImages
  /\ budget = Budget(MaxScans, 0)
NextMain ==
  \/ MainRunStart \/ ScanEnterDir \/ ScanLocalItem \/ ScanGcsItem
  \/ ScanFinish \/ MainAlerts \/ Tick
SpecMain == InitMain /\ [][NextMain]_vars

\* C11: the ScanResult has success = (errors = 0 and processed = new_files), and
\* batch-mode main exits with status 0 when success is true and with 1 when it is not.
C11_ScanSummaryExit ==
  /\ scan.pc = "done" => (scan.success <=> (scan.errors = 0 /\ scan.processed = scan.new_files))
  /\ main.exited > 0 =>
       /\ main.exit_status \in {0, 1}
       /\ main.exit_status = 0 <=> main.success

\* ------------------------------------------- several threads, one Database
InitThreads ==
  /\ StoreInit /\ DbInit /\ PipeStart /\ CacheStart /\ RestStart
  /\ cfg = Config(2, 2, TRUE, "face_recognition", TRUE, FALSE, FALSE)
  /\ disk = LocalImages \cup LocalOthers
  /\ probes = "none" /\ bucket = {} /\ budget = Budget(0, 0)
NextThreads ==
  \E t \in Threads :
    \/ ThreadAcquire(t) \/ ThreadExecute(t) \/ ThreadCommit(t) \/ ThreadRelease(t)
    \/ ThreadRead(t)
SpecThreads == InitThreads /\ [][NextThreads]_vars

\* C15: however the add_file and add_file_with_score calls of several threads
\* interleave, a key has a row as soon as one insert for it was committed, the row keeps
\* the values of the first committed insert (uploaded can only have been raised by
\* mark_uploaded), and the rows of the other keys are not affected.
C15_UniqueKeyFirstWins ==
  /\ \A k \in DbKeys :
       /\ first_insert[k] # None <=> k \in DOMAIN files
       /\ first_insert[k] # None =>
            LET a == files[k]
                b == first_insert[k][1]
            IN /\ a.sha256 = b.sha256 /\ a.matched = b.matched
               /\ a.match_score = b.match_score /\ a.matched_person = b.matched_person
               /\ a.uploaded >= b.uploaded
  /\ DOMAIN files \subseteq DbKeys

\* two inserts with different values were committed for one key, one for the other key
C15_Witness ==
  /\ ignored_inserts = 1
  /\ DOMAIN files = DbKeys
  /\ \E t \in Threads :
       /\ thr[t].pc = "committed"
       /\ thr[t].call.op \in {"add_file", "add_file_with_score"}
       /\ RowOf(thr[t].call) # files[thr[t].call.path]

\* the threads inside "with self._write_lock:"
InWrite == {t \in Threads : thr[t].pc \in {"locked", "executed", "committed"}}

DeleteConfigs ==
  {Config(2, 2, TRUE, "face_recognition", TRUE, del_src, del_unmatched) :
     del_src \in BOOLEAN, del_unmatched \in BOOLEAN}

InitDelete ==
  /\ StoreInit /\ DbInit /\ PipeStart /\ CacheStart /\ RestStart
  /\ cfg \in DeleteConfigs
  /\ probes = "scan"
  /\ disk = LocalImages \cup LocalOthers
  /\ bucket = GcsImages
  /\ budget = Budget(MaxScans, MaxWatchEvents)
SpecDelete == InitDelete /\ [][Next]_vars

\* the files of the watched local directory that exist
LocalFiles(d) == d \cap (LocalImages \cup LocalOthers)

\* C17: a file of a watched directory disappears only in the step that handled it and
\* whose unlink succeeded; if the item matched, only with delete_source_after_upload
\* set and after on_match returned; a step whose on_match raised deletes nothing; a
\* failed unlink raises nothing and counts no error; the bucket's objects are never
\* deleted.
C17_DeleteAfterUpload ==
  [][/\ bucket' = bucket
     /\ \A p \in LocalImages \cup LocalOthers :
          (p \in disk /\ p \notin disk') =>
            /\ last'.key = p
            /\ ~last'.was_seen
            /\ last'.out.unlink = "ok"
            /\ last'.out.is_matched =>
                 (cfg.delete_source_after_upload /\ last'.out.onm = "ok")
            /\ ~last'.out.is_matched => cfg.delete_unmatched_after_processing
     /\ (on_match_calls' # on_match_calls /\ last'.out.onm = "raised") =>
          LocalFiles(disk') = LocalFiles(disk)
     /\ (recog_calls' # recog_calls /\ last'.out.unlink = "failed") =>
          /\ ~last'.out.raised
          /\ ~last'.out.had_error
          /\ scan'.errors = scan.errors
          /\ Len(error_events') = Len(error_events)
          /\ LocalFiles(disk') = LocalFiles(disk)
    ]_vars

\* delete_source_after_upload is set, the item matched, on_match raised and the file
\* is still there
C17_Witness ==
  /\ cfg.delete_source_after_upload
  /\ last.out.is_matched
  /\ last.out.onm = "raised"
  /\ last.key \in LocalImages
  /\ last.key \in disk

\* ------------------------------------------------------------- one video
\* Every video of up to MaxFrames frames, with a frame rate of 0, 2 or 4, a frame count
\* in the metadata that is the true one or a longer one, and a file that opens or not.
Videos ==
  {Video(f, fps, n, o) :
     f \in UNION {[1..k -> FrameOutcomes] : k \in 0..MaxFrames},
     fps \in {0, 2, 4}, n \in {0, 40}, o \in BOOLEAN}

InitVideo ==
  /\ StoreInit /\ DbInit /\ PipeStart /\ CacheStart /\ AlertStart /\ ThreadStart /\ VideoStart
  /\ alert_cfg = AlertSettings(60, <<"a@x">>, TRUE)
  /\ video \in Videos
  /\ RetryStart
  /\ retry_cfg = RetryConfig(3, 1, 60, 2, {429, 500, 502, 503, 504})
  /\ RefreshStart
  /\ PurgeStart
  /\ cfg = Config(2, 2, TRUE, "face_recognition", TRUE, FALSE, FALSE)
  /\ disk = LocalImages \cup LocalOthers
  /\ probes = "none" /\ bucket = {} /\ budget = Budget(0, 0)
NextVideo == VideoOpen \/ VideoRead
SpecVideo == InitVideo /\ [][NextVideo]_vars

\* the frame indices (from 0) that iter_frames samples, and those of them that match
Sampled ==
  IF ~video.opened \/ video.video_fps <= 0 THEN {}
  ELSE {i \in 0..(Len(video.frames) - 1) :
          i % (IF video.frame_count < 10 * video.video_fps
               THEN (IF video.video_fps \div 2 < 1 THEN 1 ELSE video.video_fps \div 2)
               ELSE video.video_fps) = 0}
Matching == {i \in Sampled : video.frames[i + 1] = "match"}

\* C18: when find_face_in_video has returned, it has called the recognition function
\* on the sampled frames in order, up to and including the first one that reported a
\* match: with the k-th sampled frame the first match there were exactly k calls, no
\* frame after it was read, the capture is released and the result is the match at
\* that frame; without a matching frame every sampled frame was tried and the result
\* is (False, [], None, None).  While it runs, the calls made are the sampled frames
\* in order.
C18_VideoEarlyExit ==
  /\ \A j \in DOMAIN vp.called :
       /\ vp.called[j] \in Sampled
       /\ Cardinality({i \in Sampled : i < vp.called[j]}) = j - 1
  /\ vp.pc = "returned" =>
       IF Matching # {}
       THEN LET first == CHOOSE i \in Matching : \A m \in Matching : i <= m
                k == Cardinality({i \in Sampled : i <= first})
            IN /\ Len(vp.called) = k
               /\ vp.called[k] = first
               /\ vp.reads = first + 1
               /\ vp.cap = "released"
               /\ vp.result.matched
               /\ vp.result.timestamp = Some(<<first, video.video_fps>>)
       ELSE /\ Len(vp.called) = Cardinality(Sampled)
            /\ vp.result = NoVideoResult
            /\ vp.cap \in {"released", "not opened"}

\* the second sampled frame is the first match, every other frame is skipped, frames
\* follow the match and the recognition function raised on the first sampled frame
C18_Witness ==
  /\ vp.pc = "returned"
  /\ vp.result.matched
  /\ Len(vp.called) = 2
  /\ vp.called[2] = 2
  /\ video.frames[1] = "raise"
  /\ Len(video.frames) = 4
  /\ video.frames[4] = "match"

\* ------------------------------------------------------------ one wrapped call
\* Budgets from none (max_retries = -1) to MaxRetries, the default status codes or
\* none, and a delay that reaches max_delay at the third attempt.
RetryConfigs ==
  {RetryConfig(m, 1, 3, 2, codes) :
     m \in (-1)..MaxRetries, codes \in {{429, 500, 502, 503, 504}, {}}}

InitRetry ==
  /\ StoreInit /\ DbInit /\ PipeStart /\ CacheStart /\ AlertStart /\ ThreadStart /\ VideoStart
  /\ alert_cfg = AlertSettings(60, <<"a@x">>, TRUE)
  /\ video = Video(<<>>, 0, 0, FALSE)
  /\ RetryStart
  /\ retry_cfg \in RetryConfigs
  /\ RefreshStart
  /\ PurgeStart
  /\ cfg = Config(2, 2, TRUE, "face_recognition", TRUE, FALSE, FALSE)
  /\ disk = LocalImages \cup LocalOthers
  /\ probes = "none" /\ bucket = {} /\ budget = Budget(0, 0)
NextRetry == RetryEnter \/ RetryAttempt
SpecRetry == InitRetry /\ [][NextRetry]_vars

\* a failure after which the function may be called again
Transient(o) ==
  \/ o.kind = "HTTPError" /\ o.status \in retry_cfg.retryable_status_codes
  \/ o.kind = "RequestException"
\* an HTTP error that is not retried: a status outside the codes, or no response
Permanent(o) ==
  o.kind = "HTTPError" /\ (o.status = 0 \/ o.status \notin retry_cfg.retryable_status_codes)

\* C19: the wrapped function is called at most max_retries + 1 times; every call but
\* the last ended in a retryable failure (an HTTPError with a status among
\* retryable_status_codes, or another RequestException) and was followed by one
\* sleep; an HTTP error that is not retryable ends the loop in the call that raised
\* it and propagates, after exactly one call and no sleep when it is the first;
\* a retryable failure of call max_retries + 1 propagates as the last exception;
\* a successful return ends the loop.
C19_RetryBudget ==
  LET n == Len(rt.calls) IN
  /\ n <= Max({0, retry_cfg.max_retries + 1})
  /\ \A j \in 1..(n - 1) : Transient(rt.calls[j])
  /\ Len(rt.sleeps) = (IF rt.pc = "loop" THEN n ELSE Max({0, n - 1}))
  /\ \A j \in 1..n :
       /\ Permanent(rt.calls[j]) =>
            /\ j = n /\ rt.pc = "raised" /\ rt.raised = Some(rt.calls[j])
            /\ Len(rt.sleeps) = j - 1
            /\ (j = 1 => n = 1 /\ rt.sleeps = <<>>)
       /\ rt.calls[j].kind = "return" => j = n /\ rt.pc = "returned" /\ rt.raised = None
       /\ (Transient(rt.calls[j]) /\ j = retry_cfg.max_retries + 1) =>
            /\ j = n /\ rt.pc = "raised"
            /\ rt.raised = Some(rt.calls[j]) /\ rt.last_exception = rt.raised
       /\ (Transient(rt.calls[j]) /\ j < retry_cfg.max_retries + 1) => rt.pc = "loop" \/ j < n

\* a 404 on the first call has propagated
C19_Witness ==
  /\ rt.pc = "raised"
  /\ rt.calls = <<HTTPError(404)>>
  /\ rt.sleeps = <<>>
  /\ retry_cfg.max_retries = 2

\* --------------------------------------------------------- the refresh manager
\* The feature enabled or not, the smallest interval the settings accept (7 days),
\* a machine at UTC or twelve hours to either side of it, and two uploads of Alice
\* and one of Bob to refresh from.
RefreshTable ==
  ("up/1.jpg" :> FileRow(sha256("1"), 1, 1, Some(4), Some("Alice"))) @@
  ("up/2.jpg" :> FileRow(sha256("2"), 1, 1, Some(6), Some("Alice"))) @@
  ("up/3.jpg" :> FileRow(sha256("3"), 1, 1, Some(6), Some("Bob")))

InitRefresh ==
  /\ DbInit /\ PipeStart /\ CacheStart /\ AlertStart /\ ThreadStart /\ VideoStart
  /\ files = RefreshTable /\ borderline_events = <<>> /\ error_events = <<>>
  /\ alert_cfg = AlertSettings(60, <<"a@x">>, TRUE)
  /\ video = Video(<<>>, 0, 0, FALSE)
  /\ RetryStart
  /\ retry_cfg = RetryConfig(3, 1, 60, 2, {429, 500, 502, 503, 504})
  /\ \E o \in UtcOffsets : rf = RfStart(o, "insightface", "saves", RefreshTicks)
  /\ known_refresh_history = <<>>
  /\ refresh_cfg \in {KnownRefreshSettings(e, 7, 5) : e \in BOOLEAN}
  /\ PurgeStart
  /\ cfg = Config(2, 2, TRUE, "face_recognition", TRUE, FALSE, FALSE)
  /\ disk = LocalImages \cup LocalOthers
  /\ probes = "none" /\ bucket = {} /\ budget = Budget(0, 0)
NextRefresh == RefreshTick \/ ShouldRefresh \/ RunRefresh
SpecRefresh == InitRefresh /\ [][NextRefresh]_vars

\* whether a refresh is due at the time of the last call, by the elapsed time
Due ==
  /\ refresh_cfg.enabled
  /\ \/ rf.call.history_before = <<>>
     \/ \A i \in DOMAIN rf.call.history_before :
          rf.call.at - rf.call.history_before[i].created_ts >= 2 * refresh_cfg.interval_days

\* C20: should_refresh returns false when the feature is disabled, true when there is
\* no record, and otherwise true exactly when the time elapsed since the most
\* recent record is at least interval_days; a run_refresh that is not due returns no
\* result and writes no record.
C20_RefreshDueRule ==
  /\ rf.call.op = "should_refresh" => (rf.call.result <=> Due)
  /\ (rf.call.op = "run_refresh" /\ ~Due) =>
       /\ rf.call.results = <<>>
       /\ known_refresh_history = rf.call.history_before
       /\ rf.saved = rf.call.saved_before

\* ------------------------------------------------------ refresh candidates
\* Every files table over three uploads, each absent or one of: a matched and
\* uploaded image of Alice scoring 0.5 or 0.75 (target_score is 0.625, so the two are
\* equally far from it) or one of Bob; the first can also be one of Alice scoring
\* 0.875, the third an image of Alice not uploaded, a matched and uploaded row
\* without score or an unmatched row.
UploadRows(p) ==
  {FileRow(sha256(p), 1, 1, Some(4), Some("Alice")),
   FileRow(sha256(p), 1, 1, Some(6), Some("Alice")),
   FileRow(sha256(p), 1, 1, Some(6), Some("Bob"))}
  \cup (IF p # "up/1.jpg" THEN {} ELSE {FileRow(sha256(p), 1, 1, Some(7), Some("Alice"))})
  \cup (IF p # "up/3.jpg" THEN {}
        ELSE {FileRow(sha256(p), 1, 0, Some(4), Some("Alice")),
              FileRow(sha256(p), 1, 1, None, None),
              FileRow(sha256(p), 0, 0, Some(3), None)})
RefreshTables ==
  UNION {{f \in [S -> UNION {UploadRows(p) : p \in S}] : \A p \in S : f[p] \in UploadRows(p)} :
           S \in SUBSET UploadPaths}

InitCandidates ==
  /\ DbInit /\ PipeStart /\ CacheStart /\ AlertStart /\ ThreadStart /\ VideoStart
  /\ \/ files \in RefreshTables /\ rf = RfStart(0, "insightface", "any", WeekTicks)
     \/ files = RefreshTable /\ rf = RfStart(0, "face_recognition", "any", WeekTicks)
  /\ borderline_events = <<>> /\ error_events = <<>>
  /\ alert_cfg = AlertSettings(60, <<"a@x">>, TRUE)
  /\ video = Video(<<>>, 0, 0, FALSE)
  /\ RetryStart
  /\ retry_cfg = RetryConfig(3, 1, 60, 2, {429, 500, 502, 503, 504})
  /\ known_refresh_history = <<>>
  /\ refresh_cfg = KnownRefreshSettings(TRUE, 7, 5)
  /\ PurgeStart
  /\ cfg = Config(2, 2, TRUE, "face_recognition", TRUE, FALSE, FALSE)
  /\ disk = LocalImages \cup LocalOthers
  /\ probes = "none" /\ bucket = {} /\ budget = Budget(0, 0)
NextCandidates == RefreshTick \/ FindCandidates \/ RunRefresh
SpecCandidates == InitCandidates /\ [][NextCandidates]_vars

\* the records of known_refresh_history that the last call appended
NewRecords ==
  SubSeq(known_refresh_history, Len(rf.call.history_before) + 1, Len(known_refresh_history))

\* the uploads that qualify as refresh candidates of an identity, given the history
Qualifies(p, person, history) ==
  /\ p \in DOMAIN files
  /\ files[p].matched = 1
  /\ files[p].uploaded = 1
  /\ files[p].matched_person = <<person>>
  /\ files[p].match_score # <<>>
  /\ \A i \in DOMAIN history : history[i].source_file_path # p
Distance(p) ==
  IF files[p].match_score[1] - refresh_cfg.target_score < 0
  THEN refresh_cfg.target_score - files[p].match_score[1]
  ELSE files[p].match_score[1] - refresh_cfg.target_score

C22_NoUploadUsedTwice ==
  /\ \A i, j \in DOMAIN known_refresh_history :
       i # j => known_refresh_history[i].source_file_path #
                known_refresh_history[j].source_file_path
  /\ rf.call.op = "run_refresh" =>
       /\ \A i, j \in DOMAIN NewRecords :
            i # j => NewRecords[i].person_name # NewRecords[j].person_name
       /\ \A i \in DOMAIN NewRecords :
            /\ rf.call.outcomes[NewRecords[i].person_name] = "saved"
            /\ <<NewRecords[i].person_name, rf.call.at, NewRecords[i].match_score>> \in rf.saved
            /\ <<NewRecords[i].person_name, rf.call.at, NewRecords[i].match_score>>
                 \notin rf.call.saved_before

\* a second run, a week after the first, took another upload of the same identity
C22_Witness ==
  /\ rf.call.op = "run_refresh"
  /\ Len(rf.call.history_before) = 1
  /\ Len(known_refresh_history) = 2
  /\ known_refresh_history[1].person_name = known_refresh_history[2].person_name
  /\ known_refresh_history[1].created_ts < known_refresh_history[2].created_ts

\* the identities a run_refresh call went through whose crop or save failed
Failed(person) ==
  rf.backend_name # "insightface" \/ rf.call.outcomes[person] # "saved"

\* C23: in a run_refresh call that was due, an identity whose face detection, crop
\* or save failed gets no refresh record and no result, and every other identity
\* that has a candidate gets exactly one of each, wherever it comes in the order
\* of the directories.
C23_RefreshFailureIsolation ==
  (rf.call.op = "run_refresh" /\ rf.call.result /\ rf.call.exists) =>
    \A person \in KnownPeople :
      LET recs == {i \in DOMAIN NewRecords : NewRecords[i].person_name = person}
          res == {i \in DOMAIN rf.call.results : rf.call.results[i].person_name = person}
          has == \E p \in UploadPaths : Qualifies(p, person, rf.call.history_before)
      IN IF Failed(person) \/ ~has
         THEN recs = {} /\ res = {}
         ELSE Cardinality(recs) = 1 /\ Cardinality(res) = 1

\* the first identity directory's save failed and the second identity was refreshed
C23_Witness ==
  /\ rf.call.op = "run_refresh"
  /\ rf.call.dirs = <<"Bob", "Alice">>
  /\ rf.call.outcomes["Bob"] = "save_failed"
  /\ \E p \in UploadPaths : Qualifies(p, "Bob", rf.call.history_before)
  /\ Len(rf.call.results) = 1
  /\ rf.call.results[1].person_name = "Alice"

\* ------------------------------------------------------------ the event purge
\* Events are recorded, alerted and purged over eight days, on a machine at UTC or
\* twelve hours to either side of it, next to a ledger, a sent batch and a refresh
\* record.
InitPurge ==
  /\ DbInit /\ PipeStart /\ CacheStart /\ ThreadStart /\ VideoStart
  /\ files = RefreshTable /\ borderline_events = <<>> /\ error_events = <<>>
  /\ alert_batches = record_alert_sent(<<>>, "error", "a@x", 1, 0)
  /\ now = 0 /\ sender = SenderIdle /\ emails = 0 /\ alert_last = NoAlertCall
  /\ main = MainIdle
  /\ alert_cfg = AlertSettings(60, <<"a@x">>, TRUE)
  /\ video = Video(<<>>, 0, 0, FALSE)
  /\ RetryStart
  /\ retry_cfg = RetryConfig(3, 1, 60, 2, {429, 500, 502, 503, 504})
  /\ rf = RfStart(0, "insightface", "saves", RefreshTicks)
  /\ known_refresh_history = add_refresh_record(<<>>, "Alice", "up/1.jpg", 4, 0)
  /\ refresh_cfg = KnownRefreshSettings(FALSE, 60, 5)
  /\ \E o \in UtcOffsets : pg = PgStart(o)
  /\ cfg = Config(2, 2, TRUE, "face_recognition", TRUE, FALSE, FALSE)
  /\ disk = LocalImages \cup LocalOthers
  /\ probes = "none" /\ bucket = {} /\ budget = Budget(0, 0)
NextPurge == PurgeTick \/ PurgeRecord \/ PurgeMark \/ Cleanup
SpecPurge == InitPurge /\ [][NextPurge]_vars

\* an event that the purge may delete: alerted, and created before the cutoff
Purgeable(r) ==
  r.alerted = 1 /\ r.created_ts[2] < pg.call.at - 2 * pg.call.retention_days
Spared(r) == ~Purgeable(r)

\* C24: when cleanup_old_events has just returned, it has deleted only events with alerted=1 that were created
\* before the retention cutoff (every other event, the pending ones whatever their
\* age, is still there), has returned the numbers of borderline and of error events
\* it deleted, and has left the files, alert_batches and known_refresh_history
\* tables as they were.
C24_EventPurge ==
  pg.call.op = "cleanup_old_events" =>
    /\ SelectSeq(borderline_events, Spared) = SelectSeq(pg.call.bl_before, Spared)
    /\ SelectSeq(error_events, Spared) = SelectSeq(pg.call.err_before, Spared)
    /\ pg.call.returned = <<Len(pg.call.bl_before) - Len(borderline_events),
                            Len(pg.call.err_before) - Len(error_events)>>
    /\ files = RefreshTable
    /\ Len(alert_batches) = 1
    /\ Len(known_refresh_history) = 1

\* ---------------------------------------------------------------- cloud items
\* the last step handled a new item of the bucket: the loop body ran past seen()
CloudItemHandled ==
  /\ last.mode = "scan"
  /\ last.key \in GcsImages
  /\ ~last.was_seen

\* C25: for an item found under a gs:// source the key given to seen, the key stored
\* by add_file_with_score and the file path of its BorderlineEvent are the full gs://
\* URI and never the path of the temporary download, and once the item has been
\* handled its temporary file is no longer on disk.
C25_CloudDedupKey ==
  /\ \A p \in DOMAIN files : p \notin TempPaths
  /\ \A i \in DOMAIN borderline_events : borderline_events[i].file_path \notin TempPaths
  /\ (last.mode = "scan" /\ last.key \in GcsImages /\ last.was_seen) =>
       last.key \in DOMAIN files
  /\ CloudItemHandled =>
       /\ last.out.stage = "done" => last.key \in DOMAIN files
       /\ (last.out.stage = "done" /\ last.out.bl_called) =>
            \E i \in DOMAIN borderline_events : borderline_events[i].file_path = last.key
       /\ TempOf(last.key) \notin disk

\* ------------------------------------------------------- the cache rows
\* known_root as it was when the call of ret returned, while at most one change of
\* the directory has followed the return
DirAtReturn ==
  IF dir_changes = ret.changes_at_ret THEN refdir ELSE last_change.before

\* C26: the cache holds one row per cache_key; after a miss with the cache in use the
\* row of the call's cache_key holds the files_hash the call computed for the save and
\* the pickled embeddings and the identity list the call returned, whatever row was
\* there before, and the rows of the other keys are as they were; a per-file call
\* returns with the cache as it found it and has invoked the backend.
C26_OneEntryPerKey ==
  /\ DOMAIN embedding_cache \subseteq {make_cache_key(p) : p \in {q \in ParamSets : uses_cache(q)}}
  /\ (ret.kind = "miss" /\ uses_cache(ret.params)) =>
       LET k == make_cache_key(ret.params)
       IN /\ DOMAIN embedding_cache = DOMAIN ret.cache_before \cup {k}
          /\ embedding_cache[k].encodings_blob = pickle_dumps(ret.value.encodings)
          /\ pickle_loads(embedding_cache[k].encodings_blob) = ret.value.encodings
          /\ embedding_cache[k].people_json = json_dumps(ret.value.people)
          /\ json_loads(embedding_cache[k].people_json) = ret.value.people
          /\ dir_changes <= ret.changes_at_ret + 1 =>
               embedding_cache[k].files_hash = compute_files_hash(DirAtReturn)
          /\ \A j \in DOMAIN ret.cache_before \ {k} : embedding_cache[j] = ret.cache_before[j]
  /\ (ret.kind # "none" /\ ~uses_cache(ret.params)) =>
       /\ ret.kind \in {"miss", "raised"}
       /\ ret.backend_at_ret = ret.backend_at_start + 1
       /\ embedding_cache = ret.cache_before

\* a miss that found a row under its cache_key and left another row there
C26_Witness ==
  /\ ret.kind = "miss" /\ uses_cache(ret.params)
  /\ make_cache_key(ret.params) \in DOMAIN ret.cache_before
  /\ embedding_cache[make_cache_key(ret.params)] # ret.cache_before[make_cache_key(ret.params)]

\* ------------------------------------------------- a cache row that is damaged
\* The cache file outlives the process: a load may find a row left by an earlier run,
\* valid or not for known_root, whose blob or people text no longer deserializes.
StoredRows ==
  {[files_hash |-> compute_files_hash(d), encodings_blob |-> b, people_json |-> t] :
     d \in {[f \in RefEntries |-> 1], [f \in RefEntries |-> 2]},
     b \in {pickle_dumps(backend_load_known_faces([f \in RefEntries |-> 1],
                                                  Params("insightface", 300, FALSE)).encodings)}
             \cup {Damaged(e) : e \in UnpickleErrors},
     t \in {json_dumps(KnownOrder)} \cup {Damaged(e) : e \in JsonErrors}}

InitCorrupt ==
  /\ StoreInit /\ DbInit /\ PipeStart /\ RestStart
  /\ cfg = Config(2, 2, TRUE, "face_recognition", TRUE, FALSE, FALSE)
  /\ disk = LocalImages \cup LocalOthers
  /\ probes = "none" /\ bucket = {} /\ budget = Budget(0, 0)
  /\ refdir = [f \in RefEntries |-> 1]
  /\ \E row \in StoredRows :
       embedding_cache = (make_cache_key(Params("insightface", 300, FALSE)) :> row)
  /\ loader = LoaderIdle
  /\ backend_loads = 0 /\ loads = 0 /\ dir_changes = 0
  /\ last_change = NoChange
  /\ ret = NoRet /\ prev_ret = NoRet
SpecCorrupt == InitCorrupt /\ [][NextCache]_vars

\* the call of ret looked up a row whose cache_key and files_hash matched and whose
\* blob or people text does not deserialize
FoundDamaged ==
  /\ ret.kind # "none"
  /\ uses_cache(ret.params)
  /\ make_cache_key(ret.params) \in DOMAIN ret.cache_before
  /\ LET row == ret.cache_before[make_cache_key(ret.params)]
     IN /\ row.files_hash = compute_files_hash(ret.dir_at_lookup)
        /\ \/ loads_raises(row.encodings_blob) # "none"
           \/ loads_raises(row.people_json) # "none"

\* C27: a load that finds a matching row whose blob or identity list fails to
\* deserialize does not raise: it is a miss that invokes the backend, returns the
\* recomputed embeddings and leaves them in the row in place of the damaged ones.
C27_CorruptionIsMiss ==
  FoundDamaged =>
    /\ ret.kind = "miss"
    /\ ret.backend_at_ret = ret.backend_at_start + 1
    /\ embedding_cache[make_cache_key(ret.params)].encodings_blob
         = pickle_dumps(ret.value.encodings)
    /\ embedding_cache[make_cache_key(ret.params)].people_json
         = json_dumps(ret.value.people)

\* ------------------------------------------------- failures inside one item
\* the step handled the new item k and record_borderline raised in it
BorderlineRaisedOn(k) ==
  /\ ScanStepOn(k) \/ WatchStepOn(k)
  /\ last'.key = k
  /\ ~last'.was_seen
  /\ last'.out.stage = "borderline"

\* C28: when record_borderline raises for an item, the item's FileRecord is persisted
\* all the same, and a scan counts the item as processed and counts no error for it.
C28_BorderlineFireAndForget ==
  [][\A k \in DedupKeys :
       BorderlineRaisedOn(k)
         => /\ k \in DOMAIN files'
            /\ ScanStepOn(k) => /\ scan'.processed = scan.processed + 1
                                /\ scan'.errors = scan.errors]_vars

\* the step handled the new item k and its image could not be opened
DecodeFailedOn(k) ==
  /\ ScanStepOn(k) \/ WatchStepOn(k)
  /\ last'.key = k
  /\ ~last'.was_seen
  /\ last'.out.stage = "decode"

\* C29: when the image of an item cannot be decoded, process_fn is not invoked for it,
\* one ErrorEvent of type processing is recorded for it when alerting is enabled (none
\* otherwise), a scan counts one error and not a processed item and moves on to the
\* next entry, and in watch mode no exception leaves the handler.
C29_DecodeFailureNotFatal ==
  [][\A k \in DedupKeys :
       DecodeFailedOn(k)
         => /\ recog_calls' = recog_calls
            /\ on_match_calls' = on_match_calls
            /\ error_events' =
                 IF cfg.alerting
                 THEN Append(error_events, [error_type |-> "processing", file_path |-> k,
                                            alerted |-> 0])
                 ELSE error_events
            /\ ScanStepOn(k) => /\ scan'.errors = scan.errors + 1
                                /\ scan'.processed = scan.processed
                                /\ scan'.new_files = scan.new_files + 1
                                /\ scan'.pc \in {"items", "dir"}
                                /\ scan'.todo = Tail(scan.todo)
            /\ WatchStepOn(k) => ~last'.out.raised]_vars

\* a scan in which the local image failed to decode, with its processing error
\* recorded and process_fn never called for it, went on to the bucket and processed
\* the item there
C29_Witness ==
  /\ scans = 1 /\ watch_events = 0
  /\ recog_calls["D1/L1.jpg"] = 0
  /\ "D1/L1.jpg" \notin DOMAIN files
  /\ \E i \in DOMAIN error_events :
       /\ error_events[i].error_type = "processing"
       /\ error_events[i].file_path = "D1/L1.jpg"
  /\ "gs://b/G1.jpg" \in DOMAIN files
  /\ scan.errors = 1 /\ scan.processed = 1

\* C30: when on_match returned for a new item, local or of the bucket, the FileRecord
\* under the item's dedup_key says uploaded=1; when on_match raised, mark_uploaded was
\* not called and the FileRecord says uploaded=0.
C30_LedgerAfterUpload ==
  (last.mode \in {"scan", "watch"} /\ ~last.was_seen /\ last.out.stage = "done") =>
    /\ last.out.onm = "ok" =>
         last.key \in DOMAIN files /\ files[last.key].uploaded = 1
    /\ last.out.onm = "raised" =>
         last.key \in DOMAIN files /\ files[last.key].uploaded = 0

\* ------------------------------------------------- upload failures in a scan
\* the scan step handled the new item k and its on_match raised
UploadFailedOn(k) ==
  /\ ScanStepOn(k)
  /\ last'.key = k
  /\ ~last'.was_seen
  /\ last'.out.onm = "raised"

\* C31: with alerting enabled, the scan step in which the upload of an item fails adds
\* exactly one ErrorEvent of type upload, whose file path is the item's dedup_key.
C31_OneErrorPerFailedUpload ==
  [][\A k \in DedupKeys :
       (UploadFailedOn(k) /\ cfg.alerting)
         => error_events' = Append(error_events, [error_type |-> "upload", file_path |-> k,
                                                  alerted |-> 0])]_vars

\* C32: in the ScanResult of a finished scan, uploaded is the number of matched items
\* of the scan whose on_match returned, and 0 <= uploaded <= matched <= processed <=
\* new_files.
C32_SummaryCounters ==
  scan.pc = "done" =>
    /\ scan.uploaded = scan.returned
    /\ 0 <= scan.uploaded
    /\ scan.uploaded <= scan.matched
    /\ scan.matched <= scan.processed
    /\ scan.processed <= scan.new_files

\* ------------------------------------------------- what a later run does
\* the row of k says matched and not uploaded, and on_match has been invoked for k
\* (for a local item: on_match raised)
UploadPending(k) ==
  /\ k \in DOMAIN files
  /\ files[k].matched = 1
  /\ files[k].uploaded = 0
  /\ on_match_calls[k] >= 1

\* C33: once the row of an item says matched=1, uploaded=0 after its on_match was
\* invoked, no later step invokes process_fn or on_match for the item or changes its
\* row (uploaded stays 0), and a scan iteration or watch event on it finds it seen
\* and counts nothing.
C33_FailedUploadNotRetried ==
  [][\A k \in DedupKeys :
       UploadPending(k)
         => /\ recog_calls'[k] = recog_calls[k]
            /\ on_match_calls'[k] = on_match_calls[k]
            /\ k \in DOMAIN files' /\ files'[k] = files[k]
            /\ (ScanStepOn(k) \/ WatchStepOn(k)) =>
                 /\ last'.key = k /\ last'.was_seen
                 /\ scan'.new_files = scan.new_files
                 /\ scan'.errors = scan.errors]_vars

\* the second scan has skipped the local image whose upload failed in the first: one
\* process_fn call, one on_match call, the row still matched=1, uploaded=0
C33_Witness ==
  /\ scans = 2 /\ watch_events = 0
  /\ last.mode = "scan" /\ last.key = "D1/L1.jpg" /\ last.was_seen
  /\ UploadPending("D1/L1.jpg")
  /\ recog_calls["D1/L1.jpg"] = 1
  /\ on_match_calls["D1/L1.jpg"] = 1

\* the attempt on k ended in Image.open or in process_fn raising
FailedBeforePersist(k) ==
  /\ last'.key = k
  /\ ~last'.was_seen
  /\ last'.out.stage \in {"decode", "recognize"}

\* C34: an item without a FileRecord, however often it has failed before, is counted
\* as a new file and attempted by every scan that reaches it; when its decoding or its
\* recognition raises again it still gets no FileRecord, the scan counts one more
\* error and no processed item, and with alerting enabled one more processing
\* ErrorEvent is recorded for it; a watch event that fails so leaves no FileRecord.
C34_FailedItemRetried ==
  [][\A k \in DedupKeys :
       /\ (ScanStepOn(k) /\ k \notin DOMAIN files) =>
            /\ scan'.new_files = scan.new_files + 1
            /\ last'.key = k /\ ~last'.was_seen
            /\ FailedBeforePersist(k) =>
                 /\ k \notin DOMAIN files'
                 /\ scan'.errors = scan.errors + 1
                 /\ scan'.processed = scan.processed
                 /\ recog_calls'[k] =
                      recog_calls[k] + BoolInt(last'.out.stage = "recognize")
                 /\ error_events' =
                      IF cfg.alerting
                      THEN Append(error_events, [error_type |-> "processing",
                                                 file_path |-> k, alerted |-> 0])
                      ELSE error_events
       /\ (WatchStepOn(k) /\ k \notin DOMAIN files /\ FailedBeforePersist(k)) =>
            k \notin DOMAIN files']_vars

\* the local image failed in recognition in the first scan and again in the second:
\* process_fn was called twice for it, it has no FileRecord and two processing
\* ErrorEvents
C34_Witness ==
  /\ scans = 2 /\ watch_events = 0
  /\ cfg.alerting
  /\ "D1/L1.jpg" \notin DOMAIN files
  /\ recog_calls["D1/L1.jpg"] = 2
  /\ \E i, j \in DOMAIN error_events :
       /\ i < j
       /\ error_events[i].error_type = "processing" /\ error_events[i].file_path = "D1/L1.jpg"
       /\ error_events[j].error_type = "processing" /\ error_events[j].file_path = "D1/L1.jpg"
  /\ last.key = "D1/L1.jpg" /\ last.out.stage = "recognize"
  /\ scan.new_files = 1 /\ scan.errors = 1

\* C35: a local file for which a BorderlineEvent has been recorded is still on disk,
\* whatever the two delete settings say.
C35_BorderlineFileKept ==
  \A i \in DOMAIN borderline_events :
    borderline_events[i].file_path \in LocalImages =>
      borderline_events[i].file_path \in disk

\* ------------------------------------------------- the alerted flag
\* the rows of evs whose alerted flag goes from 0 to 1 in the step to evs2
NewlyAlerted(evs, evs2) ==
  {i \in DOMAIN evs : evs[i].alerted = 0 /\ evs2[i].alerted = 1}

\* C36: the alerted flag of an event goes from 0 to 1 only in the marking step of a
\* send_pending_alerts call whose email was delivered and only for an event that call
\* had gathered; it never goes back to 0; an event recorded after the gathering is
\* left as it is by the marking, and every later call gathers every pending event.
C36_AlertedOnlyIfNotified ==
  [][/\ DOMAIN borderline_events \subseteq DOMAIN borderline_events'
     /\ DOMAIN error_events \subseteq DOMAIN error_events'
     /\ \A i \in DOMAIN borderline_events :
          borderline_events[i].alerted = 1 => borderline_events'[i].alerted = 1
     /\ \A i \in DOMAIN error_events :
          error_events[i].alerted = 1 => error_events'[i].alerted = 1
     /\ (NewlyAlerted(borderline_events, borderline_events') # {}
           \/ NewlyAlerted(error_events, error_events') # {}) =>
          /\ sender.pc = "delivered"
          /\ alert_cfg.smtp /\ sender.transport_ok
          /\ NewlyAlerted(borderline_events, borderline_events') \subseteq sender.gathered.borderline
          /\ NewlyAlerted(error_events, error_events') \subseteq sender.gathered.errors
     /\ SendMark =>
          /\ \A i \in DOMAIN borderline_events \ sender.gathered.borderline :
               borderline_events'[i] = borderline_events[i]
          /\ \A i \in DOMAIN error_events \ sender.gathered.errors :
               error_events'[i] = error_events[i]
     /\ (SendGather /\ sender'.pc = "delivered") =>
          /\ sender'.gathered.borderline = get_pending_alerts(borderline_events)
          /\ sender'.gathered.errors = get_pending_alerts(error_events)
    ]_vars

\* a delivered call gathered one event while two were pending when it marked (the
\* second was recorded in between), and the next call's delivered email covers the
\* one that was left pending
C36_Witness ==
  /\ alert_last.op = "send_pending_alerts"
  /\ alert_last.result = 1
  /\ alert_last.gathered.total_events = 1
  /\ alert_last.pending = 2
  /\ sender.pc = "delivered"
  /\ sender.gathered.total_events = 1
  /\ emails = 2
  /\ Cardinality(get_pending_alerts(borderline_events))
       + Cardinality(get_pending_alerts(error_events)) = 1

\* C37: every should_send_alert call returns true or false and raises nothing, also
\* when an AlertBatch has been recorded before it.
C37_ShouldSendAlertTotal ==
  alert_last.op = "should_send_alert" =>
    /\ ~alert_last.raised
    /\ alert_last.result \in BOOLEAN

\* ------------------------------------------------- a candidate that failed
\* the step is a run_refresh call that was due and went through the directories
RefreshRan ==
  /\ rf'.call.op = "run_refresh"
  /\ rf'.clock = rf.clock
  /\ rf'.call.at = rf.clock
  /\ rf'.call.history_before = known_refresh_history
  /\ rf'.call.result
  /\ rf'.call.exists

\* C39: after a run_refresh call in which the crop or the save of an identity's best
\* candidate failed, that upload is no longer the first candidate of the identity, so
\* the next call takes another one.
C39_BadCandidateNotReselected ==
  [][RefreshRan =>
       \A person \in KnownPeople :
         LET before == find_candidates(refresh_cfg, files, known_refresh_history, person)
             after == find_candidates(refresh_cfg, files, known_refresh_history', person)
         IN (/\ rf.backend_name = "insightface"
             /\ rf'.call.outcomes[person] \in {"crop_failed", "save_failed"}
             /\ before # <<>>)
              => \/ after = <<>>
                 \/ after[1].source_path # before[1].source_path]_vars

\* ---------------------------------------------- refresh before the processor
\* target_path = person_dir / f"refresh_{timestamp}_{match_score:.2f}.jpg", relative
\* to known_people_dir
target_path(target) ==
  target[1] \o "/refresh_" \o ToString(target[2]) \o "_" \o ToString(target[3]) \o ".jpg"

\* the target files of the results of a run_refresh call
written_files(results) == {target_path(results[i].target_file_path) : i \in DOMAIN results}

\* main between the alert manager and build_processor: with known_refresh enabled the
\* manager is built and run_refresh() called; every saved crop is a new file of its
\* identity's directory, written now.  main is one thread, so no load_known_faces
\* call is under way.
MainRefresh ==
  /\ loader.pc = "idle"
  /\ refresh_cfg.enabled
  /\ Len(known_refresh_history) < MaxRefreshRecords
  /\ \E e \in RunEnvs(rf.env), m \in 1..MaxMtime :
       LET due == should_refresh(refresh_cfg, known_refresh_history, rf.clock, rf.utc_offset)
           st == run_refresh(refresh_cfg, files, known_refresh_history, rf.saved,
                             rf.backend_name, e.dirs, e.exists, e.outcomes, rf.clock,
                             rf.utc_offset)
           written == written_files(st.results)
       IN /\ known_refresh_history' = st.history
          /\ rf' = [rf EXCEPT
                      !.saved = st.saved,
                      !.call = [NoRefreshCall EXCEPT
                                  !.op = "run_refresh", !.result = due,
                                  !.results = st.results, !.at = rf.clock,
                                  !.history_before = known_refresh_history,
                                  !.saved_before = rf.saved,
                                  !.dirs = e.dirs, !.exists = e.exists,
                                  !.outcomes = e.outcomes]]
          /\ refdir' = [f \in DOMAIN refdir \cup written |->
                          IF f \in written THEN m ELSE refdir[f]]
  /\ UNCHANGED <<refresh_cfg, storeVars, dbVars, pipeVars, embedding_cache, loader,
                 backend_loads, loads, dir_changes, last_change, ret, prev_ret, alertVars,
                 threadVars, videoVars, retryVars, purgeVars>>

InitRefreshCache ==
  /\ DbInit /\ PipeStart /\ CacheStart /\ AlertStart /\ ThreadStart /\ VideoStart
  /\ files = RefreshTable /\ borderline_events = <<>> /\ error_events = <<>>
  /\ \E b \in {"insightface", "face_recognition"} : rf = RfStart(0, b, "saves", WeekTicks)
  /\ alert_cfg = AlertSettings(60, <<"a@x">>, TRUE)
  /\ video = Video(<<>>, 0, 0, FALSE)
  /\ RetryStart
  /\ retry_cfg = RetryConfig(3, 1, 60, 2, {429, 500, 502, 503, 504})
  /\ known_refresh_history = <<>>
  /\ refresh_cfg = KnownRefreshSettings(TRUE, 7, 5)
  /\ PurgeStart
  /\ cfg = Config(2, 2, TRUE, "face_recognition", TRUE, FALSE, FALSE)
  /\ disk = LocalImages \cup LocalOthers
  /\ probes = "none" /\ bucket = {} /\ budget = Budget(0, 0)
NextRefreshCache == RefreshTick \/ MainRefresh \/ LoadLookup \/ LoadCompute \/ LoadSave
SpecRefreshCache == InitRefreshCache /\ [][NextRefreshCache]_vars

\* the refresh images that were in known_root when the last call looked the cache up
RefreshImagesAt(d) == {f \in DOMAIN d : f \notin RefEntries /\ d[f] # 0}

\* the embeddings were computed from a directory that held the image
ComputedFrom(encodings, f) == f \in DOMAIN encodings.from /\ encodings.from[f] # 0

\* the row of the call's cache key, if there was one, was computed without the image
RowLacks(cache, key, f) ==
  \/ key \notin DOMAIN cache
  \/ ~ComputedFrom(pickle_loads(cache[key].encodings_blob), f)

\* C38: a load_known_faces call that returns, made with a database after run_refresh
\* saved a reference image that the cached row was not computed from, is a miss, and
\* the embeddings it returns are computed from a directory that holds the new image.
C38_RefreshInvalidatesCache ==
  ret.kind \in {"hit", "miss"} =>
    \A f \in RefreshImagesAt(ret.dir_at_lookup) :
      /\ ComputedFrom(ret.value.encodings, f)
      /\ RowLacks(ret.cache_before, make_cache_key(ret.params), f) => ret.kind = "miss"

\* a call filled the cache, run_refresh saved an image, and the next call with the
\* same key missed although the row was there
C38_Witness ==
  /\ ret.kind = "miss" /\ uses_cache(ret.params)
  /\ prev_ret.kind = "miss"
  /\ make_cache_key(ret.params) \in DOMAIN ret.cache_before
  /\ RefreshImagesAt(prev_ret.dir_at_lookup) = {}
  /\ RefreshImagesAt(ret.dir_at_lookup) # {}

\* ------------------------------------------------------- the two backends
InitStores ==
  /\ StoreInit /\ DbInit /\ PipeStart /\ CacheStart /\ RestStart
  /\ cfg = Config(2, 2, TRUE, "face_recognition", TRUE, FALSE, FALSE)
  /\ disk = LocalImages \cup LocalOthers
  /\ probes = "none" /\ bucket = {} /\ budget = Budget(0, 0)
NextStores == BothSeen \/ BothAddFile \/ BothMarkUploaded
SpecStores == InitStores /\ [][NextStores]_vars

\* the document of a key holds what the row of the key holds
SameRecord(row, doc) ==
  /\ doc.sha256 = row.sha256
  /\ doc.matched = row.matched
  /\ doc.uploaded = row.uploaded

\* C40: after any sequence of seen, add_file and mark_uploaded calls made on both
\* backends, the last call gave the same on both (the same value, no exception on
\* either), both hold the same keys and the same record under each key.
C40_BackendsAgree ==
  /\ fs.last.sqlite = fs.last.firestore
  /\ \A path \in DbKeys :
       /\ seen(files, path) <=> fs_seen(fs.docs, path)
       /\ seen(files, path) => SameRecord(files[path], fs.docs[hash_path(path)])
====
